---- MODULE Spec2Model ----
(***************************************************************************)
(* Model of the audio-reader backend: chapter segmentation                 *)
(* (services/parser/pdf.parser.ts), chunk splitting and chapter synthesis  *)
(* (services/tts.ts) and the upload handler (controllers/books.controller). *)
(*                                                                         *)
(* A string is a sequence of one-character strings (one per UTF-16 code    *)
(* unit).  The string operators below never recurse over characters: they  *)
(* select indices, so that texts of thousands of characters (the 5000      *)
(* character block, the 6400 character chunk budget) can be evaluated.     *)
(***************************************************************************)
EXTENDS Integers, Sequences, FiniteSets, TLC

VARIABLES
    splitIn,     \* argument record of the splitTextIntoChunks call under test
    splitRes,    \* <<>> before the call, <<chunks>> after it returned
    splitRun,    \* <<>>, or <<locals>> of a splitTextIntoChunks call run loop by loop
    rawText,     \* text extracted from the uploaded PDF (parsePdf: result.text)
    segRes,      \* <<>> before splitTextIntoChapters ran, <<chapters>> after
    apiResp,     \* <<>>, or <<response>>: the response to the request answered last
    booksTbl,    \* rows of table books
    chaptersTbl, \* rows of table chapters
    pc,          \* position of the synthesizeChapter invocation
    synthArgs,   \* its argument record (bookId, chapterIndex, text, voice, style)
    chunks,      \* its local chunks
    ci,          \* its loop variable i
    buffers,     \* its local buffers
    calls,       \* inputs of the speech requests issued so far, in order
    inflight,    \* number of speech requests issued and not yet settled
    outcome,     \* what the invocation surfaced to its caller
    files,       \* local file system: the pairs <<path, content>>
    cancelled,   \* <<>>, or <<n>> once the caller gave up, n requests issued by then
    req,         \* <<>>, or <<request>>: the request answered last
    nextBookId,  \* the id the database gives to the next row of books
    bookmarksTbl, \* rows of table bookmarks
    audiosTbl,   \* rows of table chapter_audios
    storage,     \* bucket "audios" of the object storage: pairs <<path, content>>
    gen,         \* <<>>, or <<locals>> of the generateAudio request being served
    genPc,       \* its position
    genCount,    \* number of generateAudio requests received
    env,         \* what the clients of this run send: header values, files, ranges
    conc         \* locals of the two generateAudio requests served side by side

vars == <<splitIn, splitRes, splitRun, rawText, segRes, apiResp, booksTbl, chaptersTbl,
          pc, synthArgs, chunks, ci, buffers, calls, inflight, outcome, files,
          cancelled, req, nextBookId, bookmarksTbl, audiosTbl, storage, gen, genPc,
          genCount, env, conc>>

splitVars == <<splitIn, splitRes, splitRun>>
segVars == <<rawText, segRes, apiResp, booksTbl, chaptersTbl>>
synthVars == <<pc, synthArgs, chunks, ci, buffers, calls, inflight, outcome, files,
               cancelled>>
genVars == <<audiosTbl, storage, gen, genPc, genCount>>
apiVars == <<req, nextBookId, bookmarksTbl, genVars>>

----------------------------------------------------------------------------
(* Characters and the JavaScript string primitives the code uses.          *)

LF == "\n"
CR == "\r"
SP == " "

\* What \s and String.prototype.trim treat as white space (within the alphabet).
WsChars == {" ", "\n", "\r", "\t"}
IsWs(c) == c \in WsChars

\* Line terminators: the characters "." of a RegExp does not match.
IsLineTerminator(c) == c \in {"\n", "\r"}

IsDigit(c) == c \in {"0", "1", "2", "3", "4", "5", "6", "7", "8", "9"}

UpperSeq == <<"A", "B", "C", "D", "E", "F", "G", "H", "I", "J", "K", "L", "M",
              "N", "O", "P", "Q", "R", "S", "T", "U", "V", "W", "X", "Y", "Z",
              "Á", "É", "Í", "Ó", "Ú", "Ü", "Ñ">>
LowerSeq == <<"a", "b", "c", "d", "e", "f", "g", "h", "i", "j", "k", "l", "m",
              "n", "o", "p", "q", "r", "s", "t", "u", "v", "w", "x", "y", "z",
              "á", "é", "í", "ó", "ú", "ü", "ñ">>

\* String.prototype.toLowerCase on one character.
ToLowerChar(c) ==
    IF \E k \in 1..Len(UpperSeq) : UpperSeq[k] = c
    THEN LowerSeq[CHOOSE k \in 1..Len(UpperSeq) : UpperSeq[k] = c]
    ELSE c

Min(a, b) == IF a <= b THEN a ELSE b

Rep(c, n) == [k \in 1..n |-> c]

\* The indices of s, in order.
Indices(s) == [k \in 1..Len(s) |-> k]

\* The characters of s at the indices idx, in that order.
At(s, idx) == SubSeq([j \in 1..Len(idx) |-> s[idx[j]]], 1, Len(idx))

\* String.prototype.trim.
Trim(s) ==
    IF \A k \in 1..Len(s) : IsWs(s[k]) THEN <<>>
    ELSE LET first == CHOOSE k \in 1..Len(s) :
                          ~IsWs(s[k]) /\ \A j \in 1..(k - 1) : IsWs(s[j])
             last  == CHOOSE k \in 1..Len(s) :
                          ~IsWs(s[k]) /\ \A j \in (k + 1)..Len(s) : IsWs(s[j])
         IN  SubSeq(s, first, last)

\* String.prototype.slice(from, to) with 0-based from, exclusive to, 0 <= from.
Slice(s, from, to) == SubSeq(s, from + 1, Min(to, Len(s)))

\* s.replace(/\r\n/g, "\n")
ReplaceCRLF(s) ==
    LET keep(k) == ~(s[k] = CR /\ k < Len(s) /\ s[k + 1] = LF)
    IN  At(s, SelectSeq(Indices(s), keep))

\* s.replace(/\n{3,}/g, "\n\n")
CollapseNewlines(s) ==
    LET keep(k) == ~(k >= 3 /\ s[k] = LF /\ s[k - 1] = LF /\ s[k - 2] = LF)
    IN  At(s, SelectSeq(Indices(s), keep))

\* s.replace(/\s+/g, " ")
CollapseWhitespace(s) ==
    LET keep(k) == ~IsWs(s[k]) \/ k = 1 \/ ~IsWs(s[k - 1])
        kept == At(s, SelectSeq(Indices(s), keep))
    IN  [k \in 1..Len(kept) |-> IF IsWs(kept[k]) THEN SP ELSE kept[k]]

\* s.split(re) for a RegExp without capture group whose matches are the
\* intervals ms[k] = <<first, last>> (1-based, in order, disjoint, non-empty).
SplitAt(s, ms) ==
    LET n == Len(ms)
        len == Len(s)
    IN  [k \in 1..(n + 1) |->
            SubSeq(s, IF k = 1 THEN 1 ELSE ms[k - 1][2] + 1,
                      IF k = n + 1 THEN len ELSE ms[k][1] - 1)]

\* The maximal runs of characters of the class cls, as intervals, in order.
Runs(s, cls) ==
    LET isStart(k) == s[k] \in cls /\ (k = 1 \/ s[k - 1] \notin cls)
        isEnd(k) == s[k] \in cls /\ (k = Len(s) \/ s[k + 1] \notin cls)
        starts == SelectSeq(Indices(s), isStart)
        ends == SelectSeq(Indices(s), isEnd)
    IN  [k \in 1..Len(starts) |-> <<starts[k], ends[k]>>]

\* pieces.map(p => p.trim()).filter(Boolean)
TrimAndDropEmpty(pieces) ==
    LET nonEmpty(p) == p # <<>>
    IN  SelectSeq([k \in 1..Len(pieces) |-> Trim(pieces[k])], nonEmpty)

\* Concatenation of a sequence of strings.
RECURSIVE Concat(_)
Concat(ss) == IF ss = <<>> THEN <<>> ELSE Head(ss) \o Concat(Tail(ss))

\* The characters of s that are not white space, in order.
NonWs(s) == LET keep(k) == ~IsWs(s[k]) IN At(s, SelectSeq(Indices(s), keep))

----------------------------------------------------------------------------
(* services/tts.ts: splitting a chapter text into chunks.                  *)

\* hardSplit whose cursor advances one character too far after each slice.
HardSplitSkip(text, maxChars) ==
    LET iterations == (Len(text) + maxChars) \div (maxChars + 1)
        nonEmpty(p) == p # <<>>
        out == [k \in 1..iterations |->
                   Trim(Slice(text, (k - 1) * (maxChars + 1),
                                    (k - 1) * (maxChars + 1) + maxChars))]
    IN  SelectSeq(out, nonEmpty)

\* hardSplit(text, maxChars): slices of maxChars characters, each trimmed,
\* the empty ones dropped.  Iteration k (1-based) runs with i = (k-1)*maxChars.
HardSplit(text, maxChars) ==
    LET iterations == (Len(text) + maxChars - 1) \div maxChars
        nonEmpty(p) == p # <<>>
        out == [k \in 1..iterations |->
                   Trim(Slice(text, (k - 1) * maxChars, (k - 1) * maxChars + maxChars))]
    IN  SelectSeq(out, nonEmpty)

\* The lookbehind class [.!?¿¡…] and the lookahead class [A-ZÁÉÍÓÚÜÑ¿¡].
\* (the horizontal ellipsis is written "U+2026": one character of the text).
IsSentenceEnd(c) == c \in {".", "!", "?", "¿", "¡", "U+2026"}
IsSentenceStart(c) ==
    (\E k \in 1..Len(UpperSeq) : UpperSeq[k] = c) \/ c \in {"¿", "¡"}

\* s.split(/(?<=[.!?¿¡…])\s+(?=[A-ZÁÉÍÓÚÜÑ¿¡])/g): the separators are the
\* maximal white-space runs with a sentence end before and a sentence start after.
SplitSentences(s) ==
    LET boundary(r) == /\ r[1] > 1 /\ IsSentenceEnd(s[r[1] - 1])
                       /\ r[2] < Len(s) /\ IsSentenceStart(s[r[2] + 1])
    IN  SplitAt(s, SelectSeq(Runs(s, WsChars), boundary))

\* push() of splitLargePieceBySentences and pushCurrent() of splitTextIntoChunks:
\* st is the pair of locals [out, cur].
PushCurrent(st) ==
    LET t == Trim(st.cur)
    IN  [out |-> IF t # <<>> THEN Append(st.out, t) ELSE st.out, cur |-> <<>>]

\* One iteration of the sentence loop of splitLargePieceBySentences.
SentenceStep(st, s, maxChars) ==
    IF (IF Len(st.cur) > 0 THEN Len(st.cur) + 1 ELSE 0) + Len(s) <= maxChars
    THEN [out |-> st.out, cur |-> IF st.cur # <<>> THEN st.cur \o <<SP>> \o s ELSE s]
    ELSE LET st1 == IF st.cur # <<>> THEN PushCurrent(st) ELSE st
         IN  IF Len(s) > maxChars
             THEN [out |-> st1.out \o HardSplit(s, maxChars), cur |-> st1.cur]
             ELSE [out |-> st1.out, cur |-> s]

RECURSIVE SentenceLoop(_, _, _, _)
SentenceLoop(sentences, k, st, maxChars) ==
    IF k > Len(sentences) THEN st
    ELSE SentenceLoop(sentences, k + 1, SentenceStep(st, sentences[k], maxChars), maxChars)

\* splitLargePieceBySentences that goes to the hard split at once.
SplitLargePieceHard(piece, maxChars) == HardSplit(piece, maxChars)

SplitLargePieceBySentences(piece, maxChars) ==
    LET sentences == TrimAndDropEmpty(SplitSentences(CollapseWhitespace(piece)))
    IN  IF Len(sentences) <= 1 THEN HardSplit(piece, maxChars)
        ELSE LET st == SentenceLoop(sentences, 1, [out |-> <<>>, cur |-> <<>>], maxChars)
             IN  (IF st.cur # <<>> THEN PushCurrent(st) ELSE st).out

\* addPiece that never appends to the running chunk: one paragraph per chunk.
AddPieceAlone(st, piece, maxChars) ==
    IF piece = <<>> THEN st
    ELSE LET st1 == IF st.cur # <<>> THEN PushCurrent(st) ELSE st
         IN  IF Len(piece) > maxChars
             THEN [out |-> st1.out \o SplitLargePieceBySentences(piece, maxChars),
                   cur |-> st1.cur]
             ELSE [out |-> st1.out, cur |-> piece]

\* addPiece with the blank-line separator left out of the fit test.
AddPieceNoSeparator(st, piece, maxChars) ==
    IF piece = <<>> THEN st
    ELSE IF Len(st.cur) + Len(piece) <= maxChars
    THEN [out |-> st.out,
          cur |-> IF st.cur # <<>> THEN st.cur \o <<LF, LF>> \o piece ELSE piece]
    ELSE LET st1 == IF st.cur # <<>> THEN PushCurrent(st) ELSE st
         IN  IF Len(piece) > maxChars
             THEN [out |-> st1.out \o SplitLargePieceBySentences(piece, maxChars),
                   cur |-> st1.cur]
             ELSE [out |-> st1.out, cur |-> piece]

\* addPiece(piece) of splitTextIntoChunks; st is the pair of locals
\* [out |-> chunks, cur |-> current].
AddPiece(st, piece, maxChars) ==
    IF piece = <<>> THEN st
    ELSE IF (IF Len(st.cur) > 0 THEN Len(st.cur) + 2 ELSE 0) + Len(piece) <= maxChars
    THEN [out |-> st.out,
          cur |-> IF st.cur # <<>> THEN st.cur \o <<LF, LF>> \o piece ELSE piece]
    ELSE LET st1 == IF st.cur # <<>> THEN PushCurrent(st) ELSE st
         IN  IF Len(piece) > maxChars
             THEN [out |-> st1.out \o SplitLargePieceBySentences(piece, maxChars),
                   cur |-> st1.cur]
             ELSE [out |-> st1.out, cur |-> piece]

RECURSIVE ParagraphLoop(_, _, _, _)
ParagraphLoop(paragraphs, k, st, maxChars) ==
    IF k > Len(paragraphs) THEN st
    ELSE ParagraphLoop(paragraphs, k + 1, AddPiece(st, paragraphs[k], maxChars), maxChars)

\* The cleaning without its final trim().
CleanTextNoTrim(text) == CollapseNewlines(ReplaceCRLF(text))

\* The cleaning at the head of splitTextIntoChunks.
CleanText(text) == Trim(CollapseNewlines(ReplaceCRLF(text)))

\* cleaned.split(/\n{2,}/g): the separators are the maximal runs of two or
\* more line feeds.
SplitParagraphs(cleaned) ==
    LET long(r) == r[2] > r[1]
    IN  SplitAt(cleaned, SelectSeq(Runs(cleaned, {LF}), long))

SplitTextIntoChunks(text, maxTokensApprox) ==
    LET maxChars == maxTokensApprox * 4
        cleaned == CleanText(text)
    IN  IF cleaned = <<>> THEN <<>>
        ELSE IF Len(cleaned) <= maxChars THEN <<cleaned>>
        ELSE LET paragraphs == TrimAndDropEmpty(SplitParagraphs(cleaned))
                 st == ParagraphLoop(paragraphs, 1, [out |-> <<>>, cur |-> <<>>], maxChars)
             IN  (IF st.cur # <<>> THEN PushCurrent(st) ELSE st).out

----------------------------------------------------------------------------
(* services/tts.ts: splitTextIntoChunks run loop by loop.  splitRun holds   *)
(* the locals of the call and of the calls it makes: the paragraph loop     *)
(* (paragraphs, p, out = chunks, cur = current), the sentence loop of       *)
(* splitLargePieceBySentences (sentences, s, sOut, sCur) and the cursor     *)
(* loop of hardSplit (hardText, i, hOut; ret names the caller).             *)

SplitLocals(maxChars) ==
    [pc |-> "paragraphs", maxChars |-> maxChars, paragraphs |-> <<>>, p |-> 1,
     out |-> <<>>, cur |-> <<>>, sentences |-> <<>>, s |-> 1, sOut |-> <<>>,
     sCur |-> <<>>, hardText |-> <<>>, i |-> 0, hOut |-> <<>>, ret |-> "",
     result |-> <<>>]

\* Lines 30-47: clean the text (the two replace calls and the trim, one
\* after the other), return at once when it is empty or fits, else split it
\* into paragraphs.
SplitBegin ==
    /\ splitIn # <<>> /\ splitRun = <<>>
    /\ \E r \in {SplitLocals(splitIn.tokens * 4)} :
       \E replaced \in {ReplaceCRLF(splitIn.text)} :
       \E collapsed \in {CollapseNewlines(replaced)} :
       \E cleaned \in {Trim(collapsed)} :
          IF cleaned = <<>> THEN splitRun' = <<[r EXCEPT !.pc = "done"]>>
          ELSE IF Len(cleaned) <= r.maxChars
          THEN splitRun' = <<[r EXCEPT !.pc = "done", !.result = <<cleaned>>]>>
          ELSE \E pieces \in {SplitParagraphs(cleaned)} :
                  splitRun' = <<[r EXCEPT !.paragraphs = TrimAndDropEmpty(pieces)]>>
    /\ UNCHANGED <<splitIn, splitRes, segVars, synthVars, apiVars, env, conc>>

\* Lines 77-80 and 57-75: the head of the paragraph loop and addPiece up to
\* its return or its call of splitLargePieceBySentences (lines 83-91).
ParagraphIter ==
    /\ splitRun # <<>> /\ splitRun[1].pc = "paragraphs"
    /\ \E r \in {splitRun[1]} :
       \E st1 \in {IF r.cur # <<>> THEN PushCurrent([out |-> r.out, cur |-> r.cur])
                                   ELSE [out |-> r.out, cur |-> r.cur]} :
          IF r.p > Len(r.paragraphs)
          THEN splitRun' = <<[r EXCEPT !.pc = "done", !.result = st1.out,
                                       !.out = st1.out, !.cur = st1.cur]>>
          ELSE \E piece \in {r.paragraphs[r.p]} :
               IF piece = <<>> THEN splitRun' = <<[r EXCEPT !.p = @ + 1]>>
               ELSE IF (IF Len(r.cur) > 0 THEN Len(r.cur) + 2 ELSE 0) + Len(piece)
                           <= r.maxChars
               THEN splitRun' =
                       <<[r EXCEPT !.cur = IF r.cur # <<>> THEN r.cur \o <<LF, LF>> \o piece
                                                           ELSE piece,
                                   !.p = @ + 1]>>
               ELSE IF Len(piece) <= r.maxChars
               THEN splitRun' = <<[r EXCEPT !.out = st1.out, !.cur = piece, !.p = @ + 1]>>
               ELSE \E normalized \in {CollapseWhitespace(piece)} :
                    \E pieces \in {SplitSentences(normalized)} :
                    \E sentences \in {TrimAndDropEmpty(pieces)} :
                       IF Len(sentences) <= 1
                       THEN splitRun' =
                               <<[r EXCEPT !.out = st1.out, !.cur = st1.cur, !.pc = "hard",
                                           !.hardText = piece, !.i = 0, !.hOut = <<>>,
                                           !.ret = "paragraph"]>>
                       ELSE splitRun' =
                               <<[r EXCEPT !.out = st1.out, !.cur = st1.cur,
                                           !.pc = "sentences", !.sentences = sentences,
                                           !.s = 1, !.sOut = <<>>, !.sCur = <<>>]>>
    /\ UNCHANGED <<splitIn, splitRes, segVars, synthVars, apiVars, env, conc>>

\* Lines 102-118: the head of the sentence loop and its body up to the next
\* iteration or the call of hardSplit; after the last sentence the chunks go
\* back to addPiece, which pushes them (lines 66-68).
SentenceIter ==
    /\ splitRun # <<>> /\ splitRun[1].pc = "sentences"
    /\ \E r \in {splitRun[1]} :
       \E st1 \in {IF r.sCur # <<>> THEN PushCurrent([out |-> r.sOut, cur |-> r.sCur])
                                    ELSE [out |-> r.sOut, cur |-> r.sCur]} :
          IF r.s > Len(r.sentences)
          THEN splitRun' = <<[r EXCEPT !.out = @ \o st1.out, !.sOut = st1.out,
                                       !.sCur = st1.cur, !.p = @ + 1, !.pc = "paragraphs"]>>
          ELSE \E sentence \in {r.sentences[r.s]} :
               IF (IF Len(r.sCur) > 0 THEN Len(r.sCur) + 1 ELSE 0) + Len(sentence)
                      <= r.maxChars
               THEN splitRun' =
                       <<[r EXCEPT !.sCur = IF r.sCur # <<>> THEN r.sCur \o <<SP>> \o sentence
                                                             ELSE sentence,
                                   !.s = @ + 1]>>
               ELSE IF Len(sentence) <= r.maxChars
               THEN splitRun' = <<[r EXCEPT !.sOut = st1.out, !.sCur = sentence, !.s = @ + 1]>>
               ELSE splitRun' =
                       <<[r EXCEPT !.sOut = st1.out, !.sCur = st1.cur, !.pc = "hard",
                                   !.hardText = sentence, !.i = 0, !.hOut = <<>>,
                                   !.ret = "sentence"]>>
    /\ UNCHANGED <<splitIn, splitRes, segVars, synthVars, apiVars, env, conc>>

\* hardSplit whose cursor stays where it is.
HardIterNoAdvance ==
    /\ splitRun # <<>> /\ splitRun[1].pc = "hard"
    /\ \E r \in {splitRun[1]} :
       \E slice \in {Slice(r.hardText, r.i, r.i + r.maxChars)} :
          /\ r.i < Len(r.hardText)
          /\ splitRun' = <<[r EXCEPT !.hOut = Append(@, Trim(slice))]>>
    /\ UNCHANGED <<splitIn, splitRes, segVars, synthVars, apiVars, env, conc>>

\* Lines 121-129: one iteration of the while loop of hardSplit, or its return
\* to splitLargePieceBySentences (line 91 or line 111).
HardIter ==
    /\ splitRun # <<>> /\ splitRun[1].pc = "hard"
    /\ \E r \in {splitRun[1]} :
          IF r.i < Len(r.hardText)
          THEN \E slice \in {Slice(r.hardText, r.i, r.i + r.maxChars)} :
                  splitRun' = <<[r EXCEPT !.hOut = Append(@, Trim(slice)),
                                          !.i = @ + r.maxChars]>>
          ELSE \E pieces \in {LET nonEmpty(t) == t # <<>> IN SelectSeq(r.hOut, nonEmpty)} :
                  splitRun' =
                     IF r.ret = "paragraph"
                     THEN <<[r EXCEPT !.out = @ \o pieces, !.p = @ + 1, !.pc = "paragraphs"]>>
                     ELSE <<[r EXCEPT !.sOut = @ \o pieces, !.s = @ + 1, !.pc = "sentences"]>>
    /\ UNCHANGED <<splitIn, splitRes, segVars, synthVars, apiVars, env, conc>>

----------------------------------------------------------------------------
(* services/parser/pdf.parser.ts: splitting the extracted text into chapters. *)

ShortTitleLength == 80
BlockSize == 5000

\* "cap[ií]tulo" under the flag i, at position p of s.
IsChapterWordAt(s, p) ==
    /\ p + 7 <= Len(s)
    /\ ToLowerChar(s[p]) = "c"
    /\ ToLowerChar(s[p + 1]) = "a"
    /\ ToLowerChar(s[p + 2]) = "p"
    /\ ToLowerChar(s[p + 3]) \in {"i", "í"}
    /\ ToLowerChar(s[p + 4]) = "t"
    /\ ToLowerChar(s[p + 5]) = "u"
    /\ ToLowerChar(s[p + 6]) = "l"
    /\ ToLowerChar(s[p + 7]) = "o"

\* The first index from `from` on that is not white space (Len(s) + 1 if none).
SkipWs(s, from) ==
    IF \A j \in from..Len(s) : IsWs(s[j]) THEN Len(s) + 1
    ELSE CHOOSE k \in from..Len(s) : ~IsWs(s[k]) /\ \A j \in from..(k - 1) : IsWs(s[j])

\* /cap[ií]tulo\s+\d+.*/i matches at p: the word, white space, a digit.
IsHeadingAt(s, p) ==
    /\ IsChapterWordAt(s, p)
    /\ p + 8 <= Len(s) /\ IsWs(s[p + 8])
    /\ SkipWs(s, p + 8) <= Len(s) /\ IsDigit(s[SkipWs(s, p + 8)])

\* A match whose ".*" runs over the line terminators to the end of the text.
HeadingEndOfText(s, p) == Len(s)

\* Last index of the match that starts at p: ".*" runs to the end of the line
\* that holds the first digit.
HeadingEnd(s, p) ==
    LET q == SkipWs(s, p + 8)
    IN  IF \A j \in q..Len(s) : ~IsLineTerminator(s[j]) THEN Len(s)
        ELSE (CHOOSE k \in q..Len(s) :
                 IsLineTerminator(s[k]) /\ \A j \in q..(k - 1) : ~IsLineTerminator(s[j])) - 1

\* The matches of the global RegExp, left to right: a candidate that starts
\* inside the previous match is not a match.
RECURSIVE AcceptMatches(_, _, _, _, _)
AcceptMatches(s, cands, k, lastEnd, acc) ==
    IF k > Len(cands) THEN acc
    ELSE IF cands[k] <= lastEnd THEN AcceptMatches(s, cands, k + 1, lastEnd, acc)
    ELSE AcceptMatches(s, cands, k + 1, HeadingEnd(s, cands[k]),
                       Append(acc, <<cands[k], HeadingEnd(s, cands[k])>>))

HeadingMatches(s) ==
    LET isHeading(p) == IsHeadingAt(s, p)
    IN  AcceptMatches(s, SelectSeq(Indices(s), isHeading), 1, 0, <<>>)

\* s.split(re) for a RegExp that is one capture group: the matched text is
\* kept as a piece of its own between the pieces around it.
SplitKeep(s, ms) ==
    LET between == SplitAt(s, ms)
    IN  [k \in 1..(2 * Len(ms) + 1) |->
            IF k % 2 = 1 THEN between[(k + 1) \div 2]
            ELSE SubSeq(s, ms[k \div 2][1], ms[k \div 2][2])]

\* text.split(chapterRegex).filter((p) => p.trim().length > 0)
ChapterParts(text) ==
    LET nonBlank(p) == Len(Trim(p)) > 0
    IN  SelectSeq(SplitKeep(text, HeadingMatches(text)), nonBlank)

\* t.toLowerCase().startsWith("cap" + i + "tulo")
StartsWithChapterWord(t, i) ==
    /\ Len(t) >= 8
    /\ [k \in 1..8 |-> ToLowerChar(t[k])] = <<"c", "a", "p", i, "t", "u", "l", "o">>

\* The title test with a threshold that admits a piece of exactly 80 characters.
IsTitleInclusive(maybeTitle) ==
    \/ StartsWithChapterWord(maybeTitle, "í")
    \/ StartsWithChapterWord(maybeTitle, "i")
    \/ Len(maybeTitle) <= ShortTitleLength

\* The test of lines 19-23 on maybeTitle.
IsTitle(maybeTitle) ==
    \/ StartsWithChapterWord(maybeTitle, "í")
    \/ StartsWithChapterWord(maybeTitle, "i")
    \/ Len(maybeTitle) < ShortTitleLength

\* A ParsedChapter; title is <<>> for null and <<t>> for the string t.
Chapter(index, title, text) == [index |-> index, title |-> title, text |-> text]

\* The heading loop stepping over two pieces for a piece that is no title.
HeadingStepSkip(parts, st) ==
    LET maybeTitle == Trim(parts[st.i])
        maybeBody == IF st.i + 1 <= Len(parts) THEN Trim(parts[st.i + 1]) ELSE <<>>
    IN  IF IsTitle(maybeTitle)
        THEN [chapters |-> Append(st.chapters,
                                  Chapter(st.currentIndex, <<maybeTitle>>, maybeBody)),
              currentIndex |-> st.currentIndex + 1,
              i |-> st.i + 2]
        ELSE IF Len(st.chapters) = 0
        THEN [chapters |-> <<Chapter(0, <<>>, maybeTitle)>>,
              currentIndex |-> st.currentIndex,
              i |-> st.i + 2]
        ELSE [chapters |-> [st.chapters EXCEPT ![Len(st.chapters)].text =
                                @ \o <<LF, LF>> \o maybeTitle],
              currentIndex |-> st.currentIndex,
              i |-> st.i + 2]

\* One iteration of the heading loop; st holds the locals [chapters, currentIndex, i]
\* (i is 1-based here).
HeadingStep(parts, st) ==
    LET maybeTitle == Trim(parts[st.i])
        maybeBody == IF st.i + 1 <= Len(parts) THEN Trim(parts[st.i + 1]) ELSE <<>>
    IN  IF IsTitle(maybeTitle)
        THEN [chapters |-> Append(st.chapters,
                                  Chapter(st.currentIndex, <<maybeTitle>>, maybeBody)),
              currentIndex |-> st.currentIndex + 1,
              i |-> st.i + 2]
        ELSE IF Len(st.chapters) = 0
        THEN [chapters |-> <<Chapter(0, <<>>, maybeTitle)>>,
              currentIndex |-> st.currentIndex,
              i |-> st.i + 1]
        ELSE [chapters |-> [st.chapters EXCEPT ![Len(st.chapters)].text =
                                @ \o <<LF, LF>> \o maybeTitle],
              currentIndex |-> st.currentIndex,
              i |-> st.i + 1]

RECURSIVE HeadingLoop(_, _)
HeadingLoop(parts, st) ==
    IF st.i > Len(parts) THEN st.chapters ELSE HeadingLoop(parts, HeadingStep(parts, st))

\* Fixed blocking whose windows end one character late.
FixedBlocksLateEnd(text) ==
    LET total == Len(text)
        iterations == (total + BlockSize - 1) \div BlockSize
    IN  [k \in 1..iterations |->
            Chapter(k - 1, <<>>, Slice(text, (k - 1) * BlockSize,
                                       Min((k - 1) * BlockSize + BlockSize + 1, total)))]

\* The else branch: successive windows of blockSize characters.
FixedBlocks(text) ==
    LET total == Len(text)
        iterations == (total + BlockSize - 1) \div BlockSize
    IN  [k \in 1..iterations |->
            Chapter(k - 1, <<>>, Slice(text, (k - 1) * BlockSize,
                                       Min((k - 1) * BlockSize + BlockSize, total)))]

SplitTextIntoChapters(raw) ==
    LET text == ReplaceCRLF(raw)
        parts == ChapterParts(text)
    IN  IF Len(parts) > 1
        THEN HeadingLoop(parts, [chapters |-> <<>>, currentIndex |-> 0, i |-> 1])
        ELSE FixedBlocks(text)


\* parseEpub (epub.parser): one chapter per spine item whose cleaned text is
\* not empty, numbered in order; items are the item texts after tag removal.
ParseEpubChapters(items) ==
    LET nonEmpty(t) == Len(t) > 0
        texts == SelectSeq([k \in 1..Len(items) |-> Trim(ReplaceCRLF(items[k]))], nonEmpty)
    IN  [k \in 1..Len(texts) |-> Chapter(k - 1, <<>>, texts[k])]

----------------------------------------------------------------------------
(* services/tts.ts: synthesizeChapter.                                     *)

LearningInstructions ==
    <<"E", "s", "p", "a", "ñ", "o", "l", " ", "n", "e", "u", "t", "r", "o", ".", " ",
    "R", "i", "t", "m", "o", " ", "c", "l", "a", "r", "o", " ", "y", " ", "p", "a", "u",
    "s", "a", "d", "o", ".", " ", "P", "r", "o", "n", "u", "n", "c", "i", "a", " ", "c",
    "o", "n", " ", "c", "l", "a", "r", "i", "d", "a", "d", ".", " ", "P", "a", "u", "s",
    "a", "s", " ", "n", "a", "t", "u", "r", "a", "l", "e", "s", ".">>

NarrativeInstructions ==
    <<"E", "s", "p", "a", "ñ", "o", "l", " ", "n", "e", "u", "t", "r", "o", ".", " ",
    "T", "o", "n", "o", " ", "n", "a", "r", "r", "a", "t", "i", "v", "o", " ", "f", "l",
    "u", "i", "d", "o", " ", "y", " ", "n", "a", "t", "u", "r", "a", "l", ".", " ", "E",
    "n", "t", "o", "n", "a", "c", "i", "ó", "n", " ", "a", "g", "r", "a", "d", "a", "b",
    "l", "e", ".", " ", "P", "a", "u", "s", "a", "s", " ", "n", "a", "t", "u", "r", "a",
    "l", "e", "s", ".">>

\* buildInstructions that returns a long prompt: the instructions twenty times.
BuildInstructionsLong(style) ==
    LET short == IF style = "learning" THEN LearningInstructions ELSE NarrativeInstructions
    IN  [k \in 1..(20 * Len(short)) |-> short[((k - 1) % Len(short)) + 1]]

\* buildInstructions(style)
BuildInstructions(style) ==
    IF style = "learning" THEN LearningInstructions ELSE NarrativeInstructions

\* The maxTokensApprox synthesizeChapter passes to splitTextIntoChunks.
SynthTokens == 1600

\* The input limit of the speech model, in tokens.
ProviderTokenLimit == 2000

\* path.join("audios", bookId, `chapter-${chapterIndex}.mp3`)
FilePath(bookId, chapterIndex) == <<"audios", bookId, chapterIndex>>

\* new Error(`Capítulo vacío (index=${chapterIndex})`)
EmptyChapterError(chapterIndex) ==
    [source |-> "synthesizeChapter", status |-> 0, code |-> "",
     message |-> <<"Capítulo vacío", chapterIndex>>]

\* What openai.audio.speech.create rejects with.
ProviderErrors ==
    {[source |-> "openai", status |-> 429, code |-> "insufficient_quota", message |-> <<>>],
     [source |-> "openai", status |-> 500, code |-> "server_error", message |-> <<>>]}

FsError == [source |-> "fs", status |-> 0, code |-> "EACCES", message |-> <<>>]

\* The audio a speech request may resolve with.
Mp3s == {<<1>>, <<2, 3>>}

\* An audio file left by an earlier run.
OldAudio == <<0>>

Thrown(e) == <<[kind |-> "thrown", error |-> e, filePath |-> <<>>]>>
Returned(path) == <<[kind |-> "returned", error |-> <<>>, filePath |-> path]>>

\* synthesizeChapter without the test for an empty chunk list.
SynthStartNoEmptyCheck ==
    /\ pc = "idle"
    /\ chunks' = SplitTextIntoChunks(synthArgs.text, SynthTokens)
    /\ pc' = "loop"
    /\ ci' = 0
    /\ buffers' = <<>>
    /\ UNCHANGED <<synthArgs, calls, inflight, outcome, files, cancelled, splitVars, env, conc, segVars, apiVars>>

\* Lines 139-156: split the text, throw on an empty chapter.
SynthStart ==
    /\ pc = "idle"
    /\ \E cs \in {SplitTextIntoChunks(synthArgs.text, SynthTokens)} :
        /\ chunks' = cs
        /\ IF Len(cs) = 0
           THEN /\ pc' = "thrown"
                /\ outcome' = Thrown(EmptyChapterError(synthArgs.chapterIndex))
           ELSE /\ pc' = "loop"
                /\ outcome' = outcome
    /\ ci' = 0
    /\ buffers' = <<>>
    /\ UNCHANGED <<synthArgs, calls, inflight, files, cancelled, splitVars, env, conc, segVars, apiVars>>

\* Lines 158-169: the request for chunk i is issued.
SpeechRequest ==
    /\ pc = "loop"
    /\ ci < Len(chunks)
    /\ calls' = Append(calls,
                       [chunk |-> ci,
                        voice |-> synthArgs.voice,
                        input |-> BuildInstructions(synthArgs.style) \o <<LF, LF>>
                                      \o chunks[ci + 1],
                        mp3 |-> <<>>])
    /\ inflight' = inflight + 1
    /\ pc' = "await"
    /\ UNCHANGED <<synthArgs, chunks, ci, buffers, outcome, files, cancelled, splitVars, env, conc, segVars, apiVars>>

\* The request resolves and its audio is put in front of the earlier ones.
SpeechResolvePrepend ==
    /\ pc = "await"
    /\ \E mp3 \in Mp3s :
        /\ buffers' = <<mp3>> \o buffers
        /\ calls' = [calls EXCEPT ![Len(calls)].mp3 = mp3]
    /\ ci' = ci + 1
    /\ inflight' = inflight - 1
    /\ pc' = "loop"
    /\ UNCHANGED <<synthArgs, chunks, outcome, files, cancelled, splitVars, env, conc, segVars, apiVars>>

\* The request resolves and the audio so far is written to the chapter file
\* at once, chunk after chunk.
SpeechResolveWriting ==
    /\ pc = "await"
    /\ \E mp3 \in Mp3s :
        /\ buffers' = Append(buffers, mp3)
        /\ calls' = [calls EXCEPT ![Len(calls)].mp3 = mp3]
        /\ files' = {f \in files : f[1] # FilePath(synthArgs.bookId, synthArgs.chapterIndex)}
                        \cup {<<FilePath(synthArgs.bookId, synthArgs.chapterIndex),
                                 Concat(Append(buffers, mp3))>>}
    /\ ci' = ci + 1
    /\ inflight' = inflight - 1
    /\ pc' = "loop"
    /\ UNCHANGED <<synthArgs, chunks, outcome, cancelled, splitVars, env, conc, segVars, apiVars>>

\* Lines 165-172: the request resolves; its audio is pushed and i advances.
SpeechResolve ==
    /\ pc = "await"
    /\ \E mp3 \in Mp3s :
        /\ buffers' = Append(buffers, mp3)
        /\ calls' = [calls EXCEPT ![Len(calls)].mp3 = mp3]
    /\ ci' = ci + 1
    /\ inflight' = inflight - 1
    /\ pc' = "loop"
    /\ UNCHANGED <<synthArgs, chunks, outcome, files, cancelled, splitVars, env, conc, segVars, apiVars>>

\* Lines 165-171: the request rejects; nothing catches it, so the provider's
\* error leaves synthesizeChapter as it is and the locals are dropped.
SpeechReject ==
    /\ pc = "await"
    /\ \E e \in ProviderErrors : outcome' = Thrown(e)
    /\ inflight' = inflight - 1
    /\ pc' = "thrown"
    /\ UNCHANGED <<synthArgs, chunks, ci, buffers, calls, files, cancelled, splitVars, env, conc, segVars, apiVars>>

\* Lines 175-186: concatenate, create the directory, write the file, return.
WriteFile ==
    /\ pc = "loop"
    /\ ci >= Len(chunks)
    /\ \E fsOk \in BOOLEAN :
        LET filePath == FilePath(synthArgs.bookId, synthArgs.chapterIndex)
            finalBuffer == Concat(buffers)
        IN  IF fsOk
            THEN /\ files' = {f \in files : f[1] # filePath} \cup {<<filePath, finalBuffer>>}
                 /\ outcome' = Returned(filePath)
                 /\ pc' = "returned"
            ELSE /\ files' = files
                 /\ outcome' = Thrown(FsError)
                 /\ pc' = "thrown"
    /\ UNCHANGED <<synthArgs, chunks, ci, buffers, calls, inflight, cancelled, splitVars, env, conc, segVars, apiVars>>

\* The caller of synthesizeChapter gives up (the client of generate-audio
\* closes the connection) while the invocation is suspended in the await of
\* line 165.  SynthesizeArgs (lines 131-137) carries no signal and no line of
\* the loop reads one: the only trace is the history variable cancelled.
CallerCancel ==
    /\ pc = "await"
    /\ cancelled = <<>>
    /\ cancelled' = <<Len(calls)>>
    /\ UNCHANGED <<pc, synthArgs, chunks, ci, buffers, calls, inflight, outcome, files,
                   splitVars, env, conc, segVars, apiVars>>

----------------------------------------------------------------------------
(* Inputs.                                                                 *)

MaxSplitBlocks == 4
MaxParagraphs == 10

\* The texts made of at most n blocks.
BlockTexts(blocks, n) ==
    {Concat(bs) : bs \in UNION {[1..k -> blocks] : k \in 0..n}}

SplitBlocks ==
    {<<"a">>, <<"B", "c">>, <<"B", "c", "d", "e", "f">>, <<".">>, <<SP>>, <<LF>>, <<CR>>}

\* n paragraphs of len characters each, separated by a blank line.
RECURSIVE ParagraphText(_, _)
ParagraphText(n, len) ==
    IF n = 0 THEN <<>>
    ELSE IF n = 1 THEN Rep("p", len)
    ELSE ParagraphText(n - 1, len) \o <<LF, LF>> \o Rep("p", len)

MaxMixed == 4
MixedLengths == {1, 3, 4, 6}
Letters == <<"a", "b", "c", "d", "e", "f">>

RECURSIVE MixedText(_, _)
MixedText(lens, k) ==
    IF k > Len(lens) THEN <<>>
    ELSE Rep(Letters[k], lens[k])
            \o (IF k < Len(lens) THEN <<LF, LF>> ELSE <<>>) \o MixedText(lens, k + 1)

MaxSentences == 3
SentenceLengths == {3, 6, 10}

\* Sentences "Ab.", "Abbbb.", ...: a capital, small letters, a full stop.
RECURSIVE SentenceText(_, _)
SentenceText(lens, k) ==
    IF k > Len(lens) THEN <<>>
    ELSE <<"A">> \o Rep(Letters[k], lens[k] - 2) \o <<".">>
            \o (IF k < Len(lens) THEN <<SP>> ELSE <<>>) \o SentenceText(lens, k + 1)

SplitScenarios ==
    \* paragraphs of 300 characters under a budget of 1000
    {[text |-> ParagraphText(n, 300), tokens |-> 250] : n \in 1..MaxParagraphs}
    \cup
    \* single-character paragraphs under a budget of 4
    {[text |-> ParagraphText(n, 1), tokens |-> 1] : n \in 1..MaxParagraphs}
    \cup
    \* sentences "Ab. Cd. Ef. Gh." under a budget of 8, and behind a paragraph
    {[text |-> <<"A", "b", ".", SP, "C", "d", ".", SP, LF, "E", "f", ".", SP, "G", "h", ".">>,
      tokens |-> 2],
     [text |-> <<"x", "y", LF, LF, "A", "b", ".", SP, "C", "d", "e", "f", "g", "h", "i",
                 "j", "k", "l", ".", SP, "M", "n", "?", LF, LF, "o">>,
      tokens |-> 2]}
    \cup
    \* up to MaxMixed paragraphs of unequal lengths, the k-th written in the
    \* k-th letter, under a budget of 8
    {[text |-> MixedText(lens, 1), tokens |-> 2] :
        lens \in UNION {[1..n -> MixedLengths] : n \in 1..MaxMixed}}
    \cup
    \* one paragraph of up to MaxSentences sentences of unequal lengths under
    \* a budget of 8, alone and behind a short paragraph
    {[text |-> pre \o SentenceText(lens, 1), tokens |-> 2] :
        lens \in UNION {[1..n -> SentenceLengths] : n \in 1..MaxSentences},
        pre \in {<<>>, <<"x", "y", LF, LF>>}}
    \cup
    \* a short text with a run of three line feeds
    {[text |-> <<"a", LF, LF, LF, "b">>, tokens |-> 2]}
    \cup
    \* an unbroken run of letters longer than the budget the service uses
    {[text |-> Rep("x", 2 * 6400 + n), tokens |-> 1600] : n \in 0..1}

MaxSegBlocks == 3
MaxSegLines == 4
MaxWindows == 2

ChapterWord == <<"C", "a", "p", "í", "t", "u", "l", "o">>
Hola == <<"H", "o", "l", "a", ".">>
Mundo == <<"M", "u", "n", "d", "o", ".">>

SegBlocks ==
    {ChapterWord \o <<SP, "1">>,
     <<"C", "A", "P", "I", "T", "U", "L", "O", LF, "2", "x">>,
     Hola, Rep("x", ShortTitleLength), <<SP>>, <<LF>>, <<CR, LF>>}

SegLines ==
    {ChapterWord \o <<SP, "1", LF>>,
     <<"c", "a", "p", "i", "t", "u", "l", "o", SP, SP, "2", "0", ":", SP, "f", "i", "n", LF>>,
     Hola \o <<LF, LF>>,
     Rep("y", ShortTitleLength - 1) \o <<".", LF>>}

SegScenarios ==
    \* the two-chapter example
    {ChapterWord \o <<SP, "1", LF>> \o Hola \o <<LF, LF>>
        \o ChapterWord \o <<SP, "2", LF>> \o Mundo}
    \cup
    \* texts without any chapter marker around multiples of the block size
    {Rep("x", n * BlockSize + d) : n \in 0..MaxWindows, d \in {0, 2000}}
    \cup
    \* a single marker inside a long text, and a long heading line
    {Rep("x", BlockSize) \o <<LF>> \o ChapterWord \o <<SP, "7", LF>>,
     Rep("x", BlockSize) \o <<LF>> \o ChapterWord \o <<SP, "7", LF>> \o Hola,
     ChapterWord \o <<SP, "7">> \o Rep("z", ShortTitleLength) \o <<LF>> \o Hola}

MaxHeadingLines == 3

HeadingLines ==
    {ChapterWord \o <<SP, "1">>,
     <<"c", "a", "p", "i", "t", "u", "l", "o", SP, SP, "2", "0", ":", SP, "f", "i", "n", SP>>}

Bodies ==
    {Hola, <<SP>> \o Mundo \o <<SP>>, Rep("b", ShortTitleLength),
     Hola \o <<LF, LF>> \o Mundo}

\* Books of 2 to MaxHeadingLines chapters: heading lines and their bodies.
HeadingBooks ==
    UNION {[headings : [1..k -> HeadingLines], bodies : [1..k -> Bodies]] :
              k \in 2..MaxHeadingLines}

\* The text of such a book: each heading line, its body, a blank line.
RECURSIVE BookText(_, _)
BookText(book, i) ==
    IF i > Len(book.headings) THEN <<>>
    ELSE book.headings[i] \o <<LF>> \o book.bodies[i] \o <<LF, LF>> \o BookText(book, i + 1)

SegInputs ==
    BlockTexts(SegBlocks, MaxSegBlocks) \cup BlockTexts(SegLines, MaxSegLines)
        \cup SegScenarios \cup {BookText(book, 1) : book \in HeadingBooks}

MaxUploadBlocks == 2

UploadInputs == BlockTexts(SegBlocks, MaxUploadBlocks)

EpubItems == {<<>>, <<SP>>, Hola}
MaxEpubItems == 2

\* The ids of the users that send requests, and the number of books the
\* database takes in one run.
Users == {"u1", "u2"}
MaxBooks == 1
BookIds == 1..MaxBooks
Voices == {"marin"}
RangeChoices == {<<>>, <<1>>}
\* body.voice and body.style of generate-audio ("" when absent), and the
\* voice and style of the bookmark and delete-audios requests.
BodyVoices == {""}
BodyStyles == {"", "narrative"}
QueryVoices == {"", "marin"}
QueryStyles == {"", "learning"}
MaxGenRequests == 1

\* A chapter text of n one-letter words.
Words(n) == SubSeq([k \in 1..(2 * n - 1) |-> IF k % 2 = 1 THEN "w" ELSE SP], 1, 2 * n - 1)

\* A book of two chapters of HeavyWords words each and a one-word chapter:
\* 49231 words in all, the first count whose estimate exceeds 2 USD, while a
\* single chapter is far below.
HeavyWords == 24615
HeavyBook == <<Words(HeavyWords), Words(HeavyWords), Hola>>

\* The spine item texts of an uploaded EPUB: env.epubs holds the files by
\* their items, and the heavy book by its name.
EpubFile(file) == IF file = "heavy" THEN HeavyBook ELSE file
Styles == {"learning", "narrative"}

MaxChunks == 5

\* Chapter texts: blank ones, a short one, and n paragraphs that each fill more
\* than half of the budget of SynthTokens * 4 characters, so that none shares
\* a chunk with its neighbour.
SynthTexts ==
    {<<>>, <<SP, LF>>, Hola}
    \cup {ParagraphText(n, 2 * SynthTokens + 1) : n \in 1..MaxChunks}
    \cup {Rep("x", 2 * 4 * SynthTokens + 1)}

SynthInputs ==
    {[bookId |-> "b1", chapterIndex |-> 0, text |-> t, voice |-> "marin", style |-> st] :
        t \in SynthTexts, st \in {"learning", "narrative"}}

SplitInputs ==
    {[text |-> t, tokens |-> k] : t \in BlockTexts(SplitBlocks, MaxSplitBlocks), k \in {1, 2}}
    \cup SplitScenarios

----------------------------------------------------------------------------
(* Specification of one splitTextIntoChunks call.                          *)

SegIdle ==
    /\ rawText = <<>> /\ segRes = <<>> /\ apiResp = <<>>
    /\ booksTbl = {} /\ chaptersTbl = {}

SynthIdle ==
    /\ pc = "idle" /\ synthArgs = <<>> /\ chunks = <<>> /\ ci = 0 /\ buffers = <<>>
    /\ calls = <<>> /\ inflight = 0 /\ outcome = <<>> /\ files = {}
    /\ cancelled = <<>>

SplitIdle == splitIn = <<>> /\ splitRes = <<>> /\ splitRun = <<>>

\* Two generateAudio requests in flight in the same process, and the locals
\* of one that has not arrived.
Twins == {1, 2}
TwinIdle ==
    [pc |-> "idle", userId |-> "", chapter |-> <<>>, voice |-> "", style |-> "",
     finalBuffer |-> <<>>, fileBuffer |-> <<>>, status |-> 0, results |-> <<>>]

ApiIdle ==
    /\ req = <<>> /\ nextBookId = 1 /\ bookmarksTbl = {} /\ audiosTbl = {}
    /\ storage = {} /\ gen = <<>> /\ genPc = "idle" /\ genCount = 0
    /\ conc = [r \in Twins |-> TwinIdle]

\* The clients of a run: the x-user-id values they send ("" for no header),
\* the EPUB files they upload (as spine item texts), and the startIndex,
\* endIndex and style values of their generate-audio requests.
Clients(users, epubs, ranges, styles) ==
    [users |-> users, epubs |-> epubs, ranges |-> ranges, styles |-> styles]

AllEpubs == UNION {[1..k -> EpubItems] : k \in 0..MaxEpubItems}

InitSplit ==
    /\ splitIn \in SplitInputs
    /\ splitRes = <<>> /\ splitRun = <<>>
    /\ SegIdle /\ SynthIdle /\ ApiIdle /\ env = <<>>

SplitCall ==
    /\ splitRes = <<>>
    /\ splitRes' = <<SplitTextIntoChunks(splitIn.text, splitIn.tokens)>>
    /\ UNCHANGED <<splitIn, splitRun, segVars, synthVars, apiVars, env, conc>>

NextSplit == SplitCall

SpecSplit == InitSplit /\ [][NextSplit]_vars

SplitDone == splitRes # <<>>
SplitChunks == splitRes[1]
SplitBudget == splitIn.tokens * 4

\* C1: every chunk splitTextIntoChunks returns is at most maxTokensApprox * 4
\* characters long, whichever tier produced it.
C1_ChunkWithinBudget ==
    SplitDone => \A k \in 1..Len(SplitChunks) : Len(SplitChunks[k]) <= SplitBudget

\* C1 witness: a call returned several chunks, one of them filling the budget.
C1_Witness ==
    /\ SplitDone /\ Len(SplitChunks) >= 3
    /\ \E k \in 1..Len(SplitChunks) : Len(SplitChunks[k]) = SplitBudget

\* C5: the non-white-space characters of the chunks, in order, are those of the
\* input text: none lost, duplicated or reordered.
C5_ChunksReproduceText ==
    SplitDone => NonWs(Concat(SplitChunks)) = NonWs(splitIn.text)

\* C5 witness: a text was cut into several chunks and white space was dropped
\* at the cuts.
C5_Witness ==
    /\ SplitDone /\ Len(SplitChunks) >= 2
    /\ Len(Concat(SplitChunks)) < Len(splitIn.text)
    /\ \E k \in 1..Len(splitIn.text) : IsWs(splitIn.text[k])

\* C10 as stated: a text within the budget gives exactly one chunk, equal to
\* the trimmed input.
C10_Original ==
    (SplitDone /\ Len(splitIn.text) <= SplitBudget)
        => SplitChunks = <<Trim(splitIn.text)>>

\* C10 amended: a text within the budget gives no chunk when it is blank and
\* otherwise exactly one chunk, the input with CRLF replaced by LF, runs of
\* three or more line feeds collapsed to two, and trimmed.
C10_WholeTextFastPath ==
    (SplitDone /\ Len(splitIn.text) <= SplitBudget)
        => IF \A k \in 1..Len(splitIn.text) : IsWs(splitIn.text[k])
           THEN SplitChunks = <<>>
           ELSE SplitChunks = <<Trim(CollapseNewlines(ReplaceCRLF(splitIn.text)))>>

\* C10 witness: a text within the budget came back as one chunk that differs
\* from the text as given.
C10_Witness ==
    /\ SplitDone /\ Len(splitIn.text) <= SplitBudget
    /\ Len(SplitChunks) = 1 /\ SplitChunks[1] # splitIn.text

\* One splitTextIntoChunks call run loop by loop; a call that has started
\* runs on until it returns (no step of it waits for anything).
\* The call run loop by loop takes the inputs of at most MaxRunLength
\* characters.
MaxRunLength == 40
RunInputs == {in \in SplitInputs : Len(in.text) <= MaxRunLength}

InitSplitRun ==
    /\ splitIn \in RunInputs
    /\ splitRes = <<>> /\ splitRun = <<>>
    /\ SegIdle /\ SynthIdle /\ ApiIdle /\ env = <<>>

NextSplitRun == SplitBegin \/ ParagraphIter \/ SentenceIter \/ HardIter

SpecSplitRun == InitSplitRun /\ [][NextSplitRun]_vars /\ WF_vars(NextSplitRun)

RunReturned == splitRun # <<>> /\ splitRun[1].pc = "done"

\* C25: split terminates for every text and every budget >= 1.  Every
\* iteration of the hard-split loop moves its cursor forward, every iteration
\* of the sentence loop and of the paragraph loop, with the calls it makes,
\* ends one sentence or paragraph further, and the call eventually returns
\* its chunk list (the one splitTextIntoChunks computes).
C25_SplitTerminates ==
    /\ [][(splitRun # <<>> /\ splitRun' # splitRun) =>
            LET r == splitRun[1]
                q == splitRun'[1]
            IN  /\ splitIn.tokens >= 1 /\ r.maxChars >= 1
                /\ (r.pc = "hard" /\ q.pc = "hard")
                      => q.i > r.i /\ q.i <= r.i + r.maxChars
                /\ q.pc = "sentences"
                      => q.s = IF r.pc = "paragraphs" THEN 1 ELSE r.s + 1
                /\ q.pc = "paragraphs" => q.p = r.p + 1
                /\ q.pc \in {"hard", "sentences", "done"} => q.p = r.p
                /\ (q.pc = "hard" /\ r.pc # "paragraphs") => q.s = r.s
                /\ q.p <= Len(q.paragraphs) + 1 /\ q.s <= Len(q.sentences) + 1]_vars
    /\ <>(RunReturned
            /\ splitRun[1].result = SplitTextIntoChunks(splitIn.text, splitIn.tokens))

\* C25 witness: a call returned after its paragraph loop went through the
\* sentence loop and the hard split of a sentence.
C25_Witness ==
    /\ RunReturned
    /\ Len(splitRun[1].paragraphs) >= 2 /\ Len(splitRun[1].sentences) >= 2
    /\ splitRun[1].ret = "sentence" /\ Len(splitRun[1].hOut) >= 2

\* The paragraphs of a text, as the claim counts them: the trimmed non-blank
\* stretches between blank lines.
ParagraphsOf(text) == TrimAndDropEmpty(SplitParagraphs(CleanText(text)))
\* The paragraphs a chunk is made of: its stretches between blank lines.
ParagraphsIn(chunk) == TrimAndDropEmpty(SplitParagraphs(chunk))
Fit(paragraphs) == \A k \in 1..Len(paragraphs) : Len(paragraphs[k]) <= SplitBudget
ParagraphCounts == [j \in 1..Len(SplitChunks) |-> Len(ParagraphsIn(SplitChunks[j]))]

\* C16: when every paragraph fits the budget, the paragraphs of the chunks,
\* read chunk after chunk, are the paragraphs of the text in their order, and
\* a chunk is followed by another only if the next paragraph, with its
\* blank-line separator, would have exceeded the budget; 10 paragraphs of 300
\* characters under a budget of 1000 are packed 3, 3, 3, 1.
C16_GreedyPacking ==
    SplitDone =>
        LET paragraphs == ParagraphsOf(splitIn.text)
            packed == [j \in 1..Len(SplitChunks) |-> ParagraphsIn(SplitChunks[j])]
        IN  Fit(paragraphs) =>
                /\ Concat(packed) = paragraphs
                /\ \A j \in 1..(Len(SplitChunks) - 1) :
                      Len(SplitChunks[j]) + 2 + Len(packed[j + 1][1]) > SplitBudget
                /\ (splitIn = [text |-> ParagraphText(10, 300), tokens |-> 250])
                      => ParagraphCounts = <<3, 3, 3, 1>>

\* C16 witness: paragraphs of unequal lengths were packed into chunks of two
\* paragraphs and of one paragraph, the first chunk closed short of the budget.
C16_Witness ==
    /\ SplitDone /\ Len(SplitChunks) >= 2 /\ Len(SplitChunks[1]) < SplitBudget
    /\ LET paragraphs == ParagraphsOf(splitIn.text)
       IN  /\ Fit(paragraphs)
           /\ \E i, j \in 1..Len(paragraphs) : Len(paragraphs[i]) # Len(paragraphs[j])
    /\ \E i, j \in 1..Len(SplitChunks) :
          ParagraphCounts[i] = 2 /\ ParagraphCounts[j] = 1

\* The sentences of a paragraph, as the claim counts them: the stretches
\* between sentence boundaries, white space runs taken as one blank.
SentencesOf(paragraph) ==
    TrimAndDropEmpty(SplitSentences(CollapseWhitespace(paragraph)))

\* s stands uncut in the chunk: at its start or behind a blank, and up to its
\* end or a blank.
IsWholeIn(s, chunk) ==
    \E i \in 1..(Len(chunk) - Len(s) + 1) :
        /\ SubSeq(chunk, i, i + Len(s) - 1) = s
        /\ i = 1 \/ chunk[i - 1] = SP
        /\ i + Len(s) - 1 = Len(chunk) \/ chunk[i + Len(s)] = SP

\* C17: the tiers are applied top-down.  A paragraph that fits the budget is
\* one of the paragraphs of some chunk, uncut; in a paragraph that exceeds the
\* budget and has a sentence boundary, a sentence that fits the budget stands
\* uncut in some chunk.  So a cut inside a word falls only in a sentence that
\* exceeds the budget or in an over-budget paragraph without sentence boundary.
C17_TiersTopDown ==
    SplitDone =>
        LET paragraphs == ParagraphsOf(splitIn.text)
            packed == [j \in 1..Len(SplitChunks) |-> ParagraphsIn(SplitChunks[j])]
        IN  \A k \in 1..Len(paragraphs) :
                IF Len(paragraphs[k]) <= SplitBudget
                THEN \E j \in 1..Len(packed) : \E i \in 1..Len(packed[j]) :
                        packed[j][i] = paragraphs[k]
                ELSE LET sentences == SentencesOf(paragraphs[k])
                     IN  Len(sentences) >= 2 =>
                            \A n \in 1..Len(sentences) :
                                Len(sentences[n]) <= SplitBudget
                                    => \E j \in 1..Len(SplitChunks) :
                                            IsWholeIn(sentences[n], SplitChunks[j])

\* C17 witness: a text with a paragraph that fits and a paragraph that exceeds
\* the budget, the latter with a sentence that fits and a sentence that exceeds
\* it and was cut inside a word.
C17_Witness ==
    /\ SplitDone
    /\ LET paragraphs == ParagraphsOf(splitIn.text)
       IN  \E k, m \in 1..Len(paragraphs) :
              /\ Len(paragraphs[k]) <= SplitBudget
              /\ Len(paragraphs[m]) > SplitBudget
              /\ LET sentences == SentencesOf(paragraphs[m])
                 IN  \E a, b \in 1..Len(sentences) :
                        /\ Len(sentences[a]) <= SplitBudget
                        /\ Len(sentences[b]) > SplitBudget
                        /\ \A j \in 1..Len(SplitChunks) :
                              ~IsWholeIn(sentences[b], SplitChunks[j])

----------------------------------------------------------------------------------------------------------------------------------------
(* Specification of one splitTextIntoChapters call, and of one upload.     *)

InitSegment ==
    /\ rawText \in SegInputs
    /\ segRes = <<>> /\ apiResp = <<>> /\ booksTbl = {} /\ chaptersTbl = {}
    /\ SplitIdle /\ SynthIdle /\ ApiIdle /\ env = <<>>

InitUpload ==
    /\ rawText \in UploadInputs
    /\ segRes = <<>> /\ apiResp = <<>> /\ booksTbl = {} /\ chaptersTbl = {}
    /\ SplitIdle /\ SynthIdle /\ ApiIdle
    /\ env = Clients({"", "u1"}, AllEpubs, {<<>>}, {""})

\* splitTextIntoChapters(rawText), as parsePdf calls it.
SegmentCall ==
    /\ segRes = <<>>
    /\ segRes' = <<SplitTextIntoChapters(rawText)>>
    /\ UNCHANGED <<rawText, apiResp, booksTbl, chaptersTbl, splitVars, env, conc, synthVars, apiVars>>

Respond(status, error) == <<[status |-> status, error |-> error]>>

\* A request as the handlers read it: req.header("x-user-id") ("" when the
\* header is missing), req.params.bookId, and the body or query fields.
Request(op, userId, bookId) == <<[op |-> op, userId |-> userId, bookId |-> bookId]>>

\* Lines 50-93 of uploadBook: reject an empty chapter list, else insert the
\* book and its chapters; bookError and chaptersError are the inserts' outcomes.
StoreBook(parsedChapters, userId, fileType) ==
    LET bookId == nextBookId
    IN  IF Len(parsedChapters) = 0
        THEN /\ apiResp' = Respond(IF fileType = "pdf" THEN 422 ELSE 400, "no text")
             /\ UNCHANGED <<booksTbl, chaptersTbl, nextBookId>>
        ELSE \E bookError \in BOOLEAN, chaptersError \in BOOLEAN :
                IF bookError
                THEN /\ apiResp' = Respond(500, "book insert")
                     /\ UNCHANGED <<booksTbl, chaptersTbl, nextBookId>>
                ELSE /\ booksTbl' = booksTbl \cup {[id |-> bookId, user_id |-> userId]}
                     /\ nextBookId' = nextBookId + 1
                     /\ IF chaptersError
                        THEN /\ apiResp' = Respond(500, "chapters insert")
                             /\ UNCHANGED chaptersTbl
                        ELSE /\ chaptersTbl' = chaptersTbl \cup
                                    {[id |-> <<bookId, k>>,
                                      book_id |-> bookId,
                                      index_in_book |-> parsedChapters[k].index,
                                      title |-> parsedChapters[k].title,
                                      text |-> parsedChapters[k].text] :
                                          k \in 1..Len(parsedChapters)}
                             /\ apiResp' = Respond(200, "")

\* uploadBook for a request with or without file and x-user-id header; a PDF
\* holds rawText, an EPUB the spine items.
UploadBook ==
    /\ nextBookId <= MaxBooks
    /\ \E hasFile \in BOOLEAN, userId \in env.users, fileType \in {"pdf", "epub", "none"} :
        /\ req' = Request("uploadBook", userId, 0)
        /\ IF ~hasFile
           THEN /\ apiResp' = Respond(400, "no file")
                /\ UNCHANGED <<booksTbl, chaptersTbl, nextBookId>>
           ELSE IF userId = ""
           THEN /\ apiResp' = Respond(401, "no user")
                /\ UNCHANGED <<booksTbl, chaptersTbl, nextBookId>>
           ELSE IF fileType = "none"
           THEN /\ apiResp' = Respond(400, "file type")
                /\ UNCHANGED <<booksTbl, chaptersTbl, nextBookId>>
           ELSE IF fileType = "pdf"
           THEN \E parsedChapters \in {SplitTextIntoChapters(rawText)} :
                   StoreBook(parsedChapters, userId, fileType)
           ELSE \E file \in env.epubs :
                \E parsedChapters \in {ParseEpubChapters(EpubFile(file))} :
                   StoreBook(parsedChapters, userId, fileType)
    /\ UNCHANGED <<rawText, segRes, splitVars, env, conc, synthVars, bookmarksTbl, genVars>>

----------------------------------------------------------------------------
(* controllers/books.controller.ts: the other handlers of the books router. *)
(* A handler without x-user-id header reads userId = "".                   *)

\* The synthesizeChapter locals, which no handler of the router touches.
synthLocals == <<pc, synthArgs, chunks, ci, buffers, calls, inflight, outcome, cancelled>>

\* safeRmDir(path.join(process.cwd(), "audios", bookId))
RmAudiosDir(fs, bookId) == {f \in fs : f[1][2] # bookId}

\* listBooks: no header is read.
ListBooks ==
    /\ \E userId \in env.users, error \in BOOLEAN :
        /\ req' = Request("listBooks", userId, 0)
        /\ apiResp' = IF error THEN Respond(500, "Error cargando libros")
                      ELSE Respond(200, "")
    /\ UNCHANGED <<rawText, segRes, booksTbl, chaptersTbl, nextBookId, bookmarksTbl,
                   genVars, splitVars, env, conc, synthVars>>

\* getBook (lines 116-167): the header is required, the book is read by id.
GetBook ==
    /\ \E userId \in env.users, bookId \in BookIds :
        /\ req' = Request("getBook", userId, bookId)
        /\ apiResp' = IF userId = "" THEN Respond(401, "Falta x-user-id")
                      ELSE IF ~\E b \in booksTbl : b.id = bookId
                      THEN Respond(404, "Libro no encontrado")
                      ELSE Respond(200, "")
    /\ UNCHANGED <<rawText, segRes, booksTbl, chaptersTbl, nextBookId, bookmarksTbl,
                   genVars, splitVars, env, conc, synthVars>>

\* deleteBook (lines 418-450) for the header userId and the parameter bookId.
DeleteBookAs(userId, bookId) ==
    /\ req' = Request("deleteBook", userId, bookId)
    /\ IF userId = ""
       THEN /\ apiResp' = Respond(401, "Falta userId")
            /\ UNCHANGED <<booksTbl, chaptersTbl, bookmarksTbl, audiosTbl, files>>
       ELSE IF ~\E b \in booksTbl : b.id = bookId /\ b.user_id = userId
       THEN /\ apiResp' = Respond(404, "Libro no encontrado")
            /\ UNCHANGED <<booksTbl, chaptersTbl, bookmarksTbl, audiosTbl, files>>
       ELSE /\ bookmarksTbl' = {m \in bookmarksTbl : m.book_id # bookId}
            /\ audiosTbl' = {a \in audiosTbl : ~(a.book_id = bookId /\ a.user_id = userId)}
            /\ chaptersTbl' = {c \in chaptersTbl : c.book_id # bookId}
            /\ booksTbl' = {b \in booksTbl : ~(b.id = bookId /\ b.user_id = userId)}
            /\ files' = RmAudiosDir(files, bookId)
            /\ apiResp' = Respond(200, "Libro eliminado")

DeleteBook ==
    /\ \E userId \in env.users, bookId \in BookIds : DeleteBookAs(userId, bookId)
    /\ UNCHANGED <<rawText, segRes, nextBookId, storage, gen, genPc, genCount,
                   splitVars, env, conc, synthLocals>>

\* deleteAudios (lines 456-513); voice and style are the query parameters
\* ("" when absent).  storage.list(prefix) lists one level: it returns objects
\* only when the prefix is the folder <bookId>/<voice>/<style> that holds them.
DeleteAudios ==
    /\ \E userId \in env.users, bookId \in BookIds,
          voice \in QueryVoices, style \in QueryStyles, delErr \in BOOLEAN :
        /\ req' = Request("deleteAudios", userId, bookId)
        /\ IF userId = ""
           THEN /\ apiResp' = Respond(401, "Falta userId")
                /\ UNCHANGED <<audiosTbl, storage, files>>
           ELSE IF ~\E b \in booksTbl : b.id = bookId
           THEN /\ apiResp' = Respond(404, "Libro no encontrado")
                /\ UNCHANGED <<audiosTbl, storage, files>>
           ELSE IF delErr
           THEN /\ apiResp' = Respond(500, "Error borrando audios (DB)")
                /\ UNCHANGED <<audiosTbl, storage, files>>
           ELSE /\ audiosTbl' = {a \in audiosTbl :
                                    ~(/\ a.book_id = bookId
                                      /\ (voice # "" => a.voice = voice)
                                      /\ (style # "" => a.style = style))}
                /\ storage' = IF voice # "" /\ style # ""
                              THEN {o \in storage : ~(/\ o[1].bookId = bookId
                                                      /\ o[1].voice = voice
                                                      /\ o[1].style = style)}
                              ELSE storage
                /\ files' = RmAudiosDir(files, bookId)
                /\ apiResp' = Respond(200, "Audios eliminados")
    /\ UNCHANGED <<rawText, segRes, booksTbl, chaptersTbl, nextBookId, bookmarksTbl,
                   gen, genPc, genCount, splitVars, env, conc, synthLocals>>

\* countWords of utils/ttsEstimate.ts.
CountWords(text) ==
    LET trimmed == Trim(text)
    IN  IF trimmed = <<>> THEN 0 ELSE Len(SplitAt(trimmed, Runs(trimmed, WsChars)))

\* fullText.replace(/\s+/g, " ").trim().split(" ").filter(Boolean).length
RecapWords(fullText) ==
    LET flat == Trim(CollapseWhitespace(fullText))
        nonEmpty(w) == w # <<>>
    IN  Len(SelectSeq(SplitAt(flat, Runs(flat, {SP})), nonEmpty))

MinRecapWords == 40

\* recapChapter (lines 515-631); completionOk is the outcome of the chat
\* completion request.
RecapChapter ==
    /\ \E userId \in env.users, bookId \in BookIds,
          chapterId \in {<<>>} \cup {c.id : c \in chaptersTbl}, completionOk \in BOOLEAN :
        /\ req' = Request("recapChapter", userId, bookId)
        /\ apiResp' =
            IF userId = "" THEN Respond(401, "Falta userId")
            ELSE IF chapterId = <<>> THEN Respond(400, "Falta chapterId")
            ELSE IF ~\E b \in booksTbl : b.id = bookId THEN Respond(404, "Libro no encontrado")
            ELSE IF ~\E b \in booksTbl : b.id = bookId /\ b.user_id = userId
            THEN Respond(403, "No tienes acceso a este libro")
            ELSE IF ~\E c \in chaptersTbl : c.id = chapterId /\ c.book_id = bookId
            THEN Respond(404, "Capítulo no encontrado")
            ELSE LET chapter == CHOOSE c \in chaptersTbl : c.id = chapterId
                 IN  IF RecapWords(chapter.text) < MinRecapWords
                     THEN Respond(422, "No hay suficiente texto")
                     ELSE IF completionOk THEN Respond(200, "")
                     ELSE Respond(500, "Error generando resumen")
    /\ UNCHANGED <<rawText, segRes, booksTbl, chaptersTbl, nextBookId, bookmarksTbl,
                   genVars, splitVars, env, conc, synthVars>>

\* saveBookmark (lines 674-708): requireUserId answers 400; the upsert is on
\* (user_id, book_id, voice, style) and no read of books precedes it.
SaveBookmark ==
    /\ \E userId \in env.users, bookId \in BookIds,
          chapterId \in {<<>>} \cup {<<b, 1>> : b \in BookIds},
          voice \in QueryVoices, style \in QueryStyles, error \in BOOLEAN :
        /\ req' = Request("saveBookmark", userId, bookId)
        /\ IF userId = ""
           THEN apiResp' = Respond(400, "Falta userId") /\ UNCHANGED bookmarksTbl
           ELSE IF chapterId = <<>>
           THEN apiResp' = Respond(400, "Faltan chapterId o positionSeconds")
                    /\ UNCHANGED bookmarksTbl
           ELSE IF voice = "" \/ style = ""
           THEN apiResp' = Respond(400, "Faltan voice y style") /\ UNCHANGED bookmarksTbl
           ELSE IF error
           THEN apiResp' = Respond(500, "Error guardando bookmark") /\ UNCHANGED bookmarksTbl
           ELSE /\ bookmarksTbl' =
                    {m \in bookmarksTbl :
                        ~(/\ m.user_id = userId /\ m.book_id = bookId
                          /\ m.voice = voice /\ m.style = style)}
                    \cup {[user_id |-> userId, book_id |-> bookId, voice |-> voice,
                           style |-> style, chapter_id |-> chapterId]}
                /\ apiResp' = Respond(200, "")
    /\ UNCHANGED <<rawText, segRes, booksTbl, chaptersTbl, nextBookId,
                   genVars, splitVars, env, conc, synthVars>>

\* config/billing.ts; the price per minute is 0.0065 USD, kept as the integer
\* 65 over PriceScale.
TTS_WORDS_PER_MINUTE == 160
TTS_PRICE_PER_MINUTE_USD == 65
PriceScale == 10000
MAX_OPERATION_COST_USD == 2

RECURSIVE SumWords(_, _)
SumWords(texts, k) ==
    IF k > Len(texts) THEN 0 ELSE CountWords(texts[k]) + SumWords(texts, k + 1)

\* estimateTextBatch whose total is the count of the longest text.
RECURSIVE MaxWords(_, _)
MaxWords(texts, k) ==
    IF k > Len(texts) THEN 0
    ELSE LET w == CountWords(texts[k])
             rest == MaxWords(texts, k + 1)
         IN  IF w >= rest THEN w ELSE rest

EstimateTextBatchLongest(texts) ==
    LET totalWords == MaxWords(texts, 1)
    IN  [words |-> totalWords,
         costNum |-> totalWords * TTS_PRICE_PER_MINUTE_USD,
         costDen |-> TTS_WORDS_PER_MINUTE * PriceScale]

\* estimateTextBatch(texts): costUsd = words / 160 * 0.0065 is the fraction
\* costNum / costDen.  (The floating-point value is within 1e-12 of it; the
\* nearest word counts give 1.99996875 and 2.00000094, so the comparison
\* with 2.0 agrees with the exact one.)
EstimateTextBatch(texts) ==
    LET totalWords == SumWords(texts, 1)
    IN  [words |-> totalWords,
         costNum |-> totalWords * TTS_PRICE_PER_MINUTE_USD,
         costDen |-> TTS_WORDS_PER_MINUTE * PriceScale]

\* .eq("book_id", bookId).order("index_in_book", { ascending: true }): the
\* orders the database may return (rows with equal index in any order).
OrderedChapters(bookId) ==
    LET rows == {c \in chaptersTbl : c.book_id = bookId}
        n == Cardinality(rows)
    IN  {s \in [1..n -> rows] :
            \A i, j \in 1..n : i < j => /\ s[i] # s[j]
                                        /\ s[i].index_in_book <= s[j].index_in_book}

\* The response of generateAudio: status, text, and the count it reports
\* (partialChaptersGenerated or generatedChapters) with the results.
GenRespond(status, error, results) ==
    <<[status |-> status, error |-> error, generated |-> Len(results), chapters |-> results]>>

\* The 400 of the cost guard (lines 274-281), with the word count of the
\* estimate it reports (minutes and costUsd, rounded for display, left out).
GenRespondCost(estimate) ==
    <<[status |-> 400, error |-> "coste", generated |-> 0, chapters |-> <<>>,
       estimate |-> [words |-> estimate.words]]>>

\* generateAudio, lines 195-283: the request is checked and the cost guard
\* applied; startIndex and endIndex are <<>> (absent) or <<n>> as normalised
\* by lines 227-234.
GenerateAudio ==
    /\ genPc = "idle"
    /\ genCount < MaxGenRequests
    /\ \E userId \in env.users, bookId \in BookIds,
          bodyVoice \in BodyVoices, bodyStyle \in env.styles,
          startIndex \in env.ranges, endIndex \in env.ranges :
      \E chapters \in OrderedChapters(bookId) :
        LET voice == IF bodyVoice = "" THEN "marin" ELSE bodyVoice
            style == IF bodyStyle \in {"narrative", "learning"} THEN bodyStyle ELSE "learning"
            inRange(c) == /\ (startIndex # <<>> => c.index_in_book >= startIndex[1])
                          /\ (endIndex # <<>> => c.index_in_book <= endIndex[1])
            chaptersToProcess == SelectSeq(chapters, inRange)
            nonBlank(t) == Len(Trim(t)) > 0
            texts == SelectSeq([k \in 1..Len(chaptersToProcess) |-> chaptersToProcess[k].text],
                               nonBlank)
            estimate == EstimateTextBatch(texts)
            reject(status, error) ==
                /\ apiResp' = GenRespond(status, error, <<>>)
                /\ UNCHANGED <<gen, genPc>>
        IN  /\ genCount' = genCount + 1
            /\ req' = <<[op |-> "generateAudio", userId |-> userId, bookId |-> bookId,
                         startIndex |-> startIndex, endIndex |-> endIndex]>>
            /\ IF userId = "" THEN reject(401, "Falta x-user-id")
               ELSE IF ~\E b \in booksTbl : b.id = bookId THEN reject(404, "Libro no encontrado")
               ELSE IF Len(chapters) = 0 THEN reject(400, "No hay capítulos")
               ELSE IF Len(chaptersToProcess) = 0 THEN reject(400, "No hay capítulos en el rango")
               ELSE IF Len(texts) = 0 THEN reject(400, "sin texto")
               ELSE IF estimate.costNum > MAX_OPERATION_COST_USD * estimate.costDen
               THEN /\ apiResp' = GenRespondCost(estimate)
                    /\ UNCHANGED <<gen, genPc>>
               ELSE /\ gen' = <<[userId |-> userId, bookId |-> bookId, voice |-> voice,
                                 style |-> style, todo |-> chaptersToProcess, k |-> 1,
                                 results |-> <<>>, n |-> genCount + 1]>>
                    /\ genPc' = "loop"
                    /\ apiResp' = <<>>
    /\ UNCHANGED <<rawText, segRes, booksTbl, chaptersTbl, nextBookId, bookmarksTbl,
                   audiosTbl, storage, splitVars, env, conc, synthVars>>

\* Lines 285-297 and 379-388: the head of the chapter loop.  A chapter without
\* text is skipped, another one is handed to synthesizeChapter; after the last
\* chapter the request is answered.
GenLoop ==
    /\ genPc = "loop"
    /\ LET g == gen[1]
       IN  IF g.k > Len(g.todo)
           THEN /\ req' = Request("generateAudio", g.userId, g.bookId)
                /\ apiResp' = GenRespond(200, "", g.results)
                /\ gen' = <<>> /\ genPc' = "idle"
                /\ UNCHANGED synthLocals
           ELSE IF Len(Trim(g.todo[g.k].text)) = 0
           THEN /\ gen' = <<[g EXCEPT !.k = @ + 1]>>
                /\ UNCHANGED <<req, apiResp, genPc, synthLocals>>
           ELSE /\ synthArgs' = [bookId |-> g.bookId,
                                 chapterIndex |-> g.todo[g.k].index_in_book,
                                 text |-> g.todo[g.k].text,
                                 voice |-> g.voice, style |-> g.style]
                /\ pc' = "idle" /\ chunks' = <<>> /\ ci' = 0 /\ buffers' = <<>>
                /\ outcome' = <<>> /\ inflight' = 0
                /\ genPc' = "synth"
                /\ UNCHANGED <<req, apiResp, gen, calls, cancelled>>
    /\ UNCHANGED <<rawText, segRes, booksTbl, chaptersTbl, nextBookId, bookmarksTbl,
                   audiosTbl, storage, genCount, files, splitVars, env, conc>>

\* generateAudio whose catch block goes on with the next chapter.
GenAfterSynthContinue ==
    /\ genPc = "synth"
    /\ pc \in {"returned", "thrown"}
    /\ gen' = <<[gen[1] EXCEPT !.k = @ + 1]>>
    /\ genPc' = "loop"
    /\ UNCHANGED <<req, apiResp, audiosTbl, storage, files>>
    /\ UNCHANGED <<rawText, segRes, booksTbl, chaptersTbl, nextBookId, bookmarksTbl,
                   genCount, splitVars, env, conc, synthLocals>>

\* Lines 299-376: synthesizeChapter has returned or thrown.  The file is read
\* and uploaded, the local copy removed and the row of chapter_audios
\* upserted; an error of the upload or of the upsert skips to the next
\* chapter, anything thrown ends the request with 429 or 500.
GenAfterSynth ==
    /\ genPc = "synth"
    /\ pc \in {"returned", "thrown"}
    /\ LET g == gen[1]
           chapter == g.todo[g.k]
           next == <<[g EXCEPT !.k = @ + 1]>>
           fail(e) ==
               /\ req' = Request("generateAudio", g.userId, g.bookId)
               /\ apiResp' = IF e.code = "insufficient_quota" \/ e.status = 429
                             THEN GenRespond(429, "cuota", g.results)
                             ELSE GenRespond(500, "Error generando audio.", g.results)
               /\ gen' = <<>> /\ genPc' = "idle"
               /\ UNCHANGED <<audiosTbl, storage, files>>
       IN  IF pc = "thrown" THEN fail(outcome[1].error)
           ELSE IF ~\E f \in files : f[1] = outcome[1].filePath
           THEN fail([source |-> "fs", status |-> 0, code |-> "ENOENT", message |-> <<>>])
           ELSE \E uploadError \in BOOLEAN, upsertError \in BOOLEAN :
                LET filePath == outcome[1].filePath
                    fileBuffer == (CHOOSE f \in files : f[1] = filePath)[2]
                    storagePath == [bookId |-> g.bookId, voice |-> g.voice, style |-> g.style,
                                    index |-> chapter.index_in_book, timestamp |-> <<g.n, g.k>>]
                    row == [user_id |-> g.userId, book_id |-> g.bookId,
                            chapter_id |-> chapter.id, voice |-> g.voice, style |-> g.style,
                            audio_path |-> storagePath]
                    sameKey(a) == /\ a.user_id = row.user_id /\ a.book_id = row.book_id
                                  /\ a.chapter_id = row.chapter_id
                                  /\ a.voice = row.voice /\ a.style = row.style
                IN  /\ UNCHANGED <<req, apiResp>> /\ genPc' = "loop"
                    /\ IF uploadError
                       THEN /\ gen' = next
                            /\ UNCHANGED <<audiosTbl, storage, files>>
                       ELSE /\ storage' = {o \in storage : o[1] # storagePath}
                                              \cup {<<storagePath, fileBuffer>>}
                            /\ files' = {f \in files : f[1] # filePath}
                            /\ IF upsertError
                               THEN gen' = next /\ UNCHANGED audiosTbl
                               ELSE /\ audiosTbl' = {a \in audiosTbl : ~sameKey(a)} \cup {row}
                                    /\ gen' = <<[g EXCEPT !.k = @ + 1,
                                                          !.results = Append(@,
                                                              [chapterId |-> chapter.id,
                                                               index |-> chapter.index_in_book,
                                                               audio_path |-> storagePath])]>>
    /\ UNCHANGED <<rawText, segRes, booksTbl, chaptersTbl, nextBookId, bookmarksTbl,
                   genCount, splitVars, env, conc, synthLocals>>

----------------------------------------------------------------------------
(* controllers/books.controller.ts and services/tts.ts: two generateAudio   *)
(* requests served side by side.  Each awaits the provider, the file system *)
(* and the storage; at every await the other request may run.  A request    *)
(* selects one chapter (startIndex = endIndex).                             *)

twinRest == <<splitVars, segVars, synthLocals, req, nextBookId, bookmarksTbl, gen, genPc,
              genCount, env>>

\* The storage path of request r (line 302).
TwinPath(r) ==
    [bookId |-> conc[r].chapter.book_id, voice |-> conc[r].voice, style |-> conc[r].style,
     index |-> conc[r].chapter.index_in_book, timestamp |-> <<r, 1>>]

\* The local file of request r (tts.ts lines 178-182).
TwinFile(r) == FilePath(conc[r].chapter.book_id, conc[r].chapter.index_in_book)

\* Lines 195-297: the request passes the checks and calls synthesizeChapter
\* for its chapter.
TwinAccept(r) ==
    /\ conc[r].pc = "idle"
    /\ \E userId \in env.users \ {""}, chapter \in chaptersTbl, bodyStyle \in env.styles :
          /\ Len(Trim(chapter.text)) > 0
          /\ conc' = [conc EXCEPT ![r] =
                         [TwinIdle EXCEPT !.pc = "synth", !.userId = userId,
                                          !.chapter = chapter, !.voice = "marin",
                                          !.style = IF bodyStyle \in {"narrative", "learning"}
                                                    THEN bodyStyle ELSE "learning"]]
    /\ UNCHANGED <<twinRest, files, storage, audiosTbl>>

\* tts.ts lines 158-175: the speech requests resolve and their audio is
\* concatenated.
TwinSynthesized(r) ==
    /\ conc[r].pc = "synth"
    /\ \E mp3 \in Mp3s : conc' = [conc EXCEPT ![r].finalBuffer = mp3, ![r].pc = "write"]
    /\ UNCHANGED <<twinRest, files, storage, audiosTbl>>

\* tts.ts lines 177-184: mkdir and writeFile have been carried out.
TwinWriteFile(r) ==
    /\ conc[r].pc = "write"
    /\ files' = {f \in files : f[1] # TwinFile(r)} \cup {<<TwinFile(r), conc[r].finalBuffer>>}
    /\ conc' = [conc EXCEPT ![r].pc = "written"]
    /\ UNCHANGED <<twinRest, storage, audiosTbl>>

\* tts.ts line 186 and controller lines 300-309: synthesizeChapter returns,
\* the file is read and the upload begins; a missing file throws and the
\* request ends with 500 (lines 357-376).
TwinReadFile(r) ==
    /\ conc[r].pc = "written"
    /\ IF \E f \in files : f[1] = TwinFile(r)
       THEN conc' = [conc EXCEPT ![r].fileBuffer =
                                     (CHOOSE f \in files : f[1] = TwinFile(r))[2],
                                 ![r].pc = "upload"]
       ELSE conc' = [conc EXCEPT ![r].status = 500, ![r].pc = "done"]
    /\ UNCHANGED <<twinRest, files, storage, audiosTbl>>

\* Lines 311-388: the upload ends; on success the local file is removed and
\* the row of chapter_audios upserted; the request is answered.
TwinUploaded(r) ==
    /\ conc[r].pc = "upload"
    /\ \E uploadError \in BOOLEAN, upsertError \in BOOLEAN :
        LET row == [user_id |-> conc[r].userId, book_id |-> conc[r].chapter.book_id,
                    chapter_id |-> conc[r].chapter.id, voice |-> conc[r].voice,
                    style |-> conc[r].style, audio_path |-> TwinPath(r)]
            sameKey(a) == /\ a.user_id = row.user_id /\ a.book_id = row.book_id
                          /\ a.chapter_id = row.chapter_id
                          /\ a.voice = row.voice /\ a.style = row.style
            answered(results) ==
                conc' = [conc EXCEPT ![r].status = 200, ![r].results = results,
                                     ![r].pc = "done"]
        IN  IF uploadError
            THEN answered(<<>>) /\ UNCHANGED <<files, storage, audiosTbl>>
            ELSE /\ storage' = {o \in storage : o[1] # TwinPath(r)}
                                   \cup {<<TwinPath(r), conc[r].fileBuffer>>}
                 /\ files' = {f \in files : f[1] # TwinFile(r)}
                 /\ IF upsertError
                    THEN answered(<<>>) /\ UNCHANGED audiosTbl
                    ELSE /\ audiosTbl' = {a \in audiosTbl : ~sameKey(a)} \cup {row}
                         /\ answered(<<[chapterId |-> conc[r].chapter.id,
                                        index |-> conc[r].chapter.index_in_book,
                                        audio_path |-> TwinPath(r)]>>)
    /\ UNCHANGED twinRest

NextSegment == SegmentCall

SpecSegment == InitSegment /\ [][NextSegment]_vars

NextUpload == UploadBook

SpecUpload == InitUpload /\ [][NextUpload]_vars

SegDone == segRes # <<>>
SegChapters == segRes[1]
SegText == ReplaceCRLF(rawText)
IsBlank(s) == \A k \in 1..Len(s) : IsWs(s[k])

\* C2 as stated: a non-empty text gives at least one chapter and the index
\* fields are 0, 1, ..., n-1 in emission order.
C2_Original ==
    (SegDone /\ rawText # <<>>)
        => /\ Len(SegChapters) >= 1
           /\ \A k \in 1..Len(SegChapters) : SegChapters[k].index = k - 1

\* title followed by text, for each chapter in emission order.
TitlesAndTexts(chs) ==
    [k \in 1..Len(chs) |->
        (IF chs[k].title = <<>> THEN <<>> ELSE chs[k].title[1]) \o chs[k].text]

\* C6 as stated: the text fields alone, in order, reproduce the input modulo
\* white space.
C6_Original ==
    SegDone => NonWs(Concat([k \in 1..Len(SegChapters) |-> SegChapters[k].text]))
                   = NonWs(rawText)

\* C6 amended: title (when there is one) followed by text, chapter after
\* chapter in emission order, reproduces the input modulo white space.
C6_TitlesAndTextsReproduceInput ==
    SegDone => NonWs(Concat(TitlesAndTexts(SegChapters))) = NonWs(rawText)

\* C6 witness: heading mode produced several chapters, one of them titled,
\* one of them with text.
C6_Witness ==
    /\ SegDone /\ Len(SegChapters) >= 2
    /\ \E k \in 1..Len(SegChapters) : SegChapters[k].title # <<>>
    /\ \E k \in 1..Len(SegChapters) : SegChapters[k].text # <<>>

\* C7 as stated: an empty or white-space-only text gives an empty chapter list.
C7_Original ==
    (SegDone /\ IsBlank(rawText)) => SegChapters = <<>>

\* The chapters of fixed-size blocking: untitled windows of BlockSize
\* characters of the normalized text, the last one possibly shorter.
IsFixedBlocking(chs, text) ==
    /\ Len(chs) = (Len(text) + BlockSize - 1) \div BlockSize
    /\ \A k \in 1..Len(chs) :
        /\ chs[k].index = k - 1
        /\ chs[k].title = <<>>
        /\ chs[k].text = SubSeq(text, (k - 1) * BlockSize + 1, Min(k * BlockSize, Len(text)))

\* C8 as stated: fewer than two heading matches means fixed-size blocking.
C8_Original ==
    (SegDone /\ Len(HeadingMatches(SegText)) < 2) => IsFixedBlocking(SegChapters, SegText)

\* C8 amended: fixed-size blocking is used when there is no heading match, or
\* one heading match with nothing but white space around it.
C8_FallbackBlocking ==
    LET ms == HeadingMatches(SegText)
    IN  (SegDone /\ (Len(ms) = 0 \/
                     (Len(ms) = 1 /\ IsBlank(SubSeq(SegText, 1, ms[1][1] - 1))
                                  /\ IsBlank(SubSeq(SegText, ms[1][2] + 1, Len(SegText))))))
            => IsFixedBlocking(SegChapters, SegText)

\* C8 witness: a 12000 character text without marker came back as windows of
\* 5000, 5000 and 2000 characters.
C8_Witness ==
    /\ SegDone /\ Len(rawText) = 12000 /\ Len(SegChapters) = 3
    /\ Len(SegChapters[1].text) = 5000 /\ Len(SegChapters[2].text) = 5000
    /\ Len(SegChapters[3].text) = 2000

\* The pieces of the heading walk, trimmed.
SegPieces ==
    LET parts == ChapterParts(SegText) IN [k \in 1..Len(parts) |-> Trim(parts[k])]

IsHeadingMode == Len(ChapterParts(SegText)) > 1

\* A piece is a heading: it starts with the chapter word (with or without
\* accent, in any case) or it is shorter than 80 characters.
IsHeadingPiece(t) ==
    \/ /\ Len(t) >= 8
       /\ [k \in 1..8 |-> ToLowerChar(t[k])] \in
            {<<"c", "a", "p", "í", "t", "u", "l", "o">>, <<"c", "a", "p", "i", "t", "u", "l", "o">>}
    \/ Len(t) < 80

\* The positions the left-to-right walk stops at: the first piece, then two
\* further on after a heading (its body is passed over), one after any other.
RECURSIVE WalkFrom(_, _)
WalkFrom(pieces, i) ==
    IF i > Len(pieces) THEN <<>>
    ELSE <<i>> \o WalkFrom(pieces, IF IsHeadingPiece(pieces[i]) THEN i + 2 ELSE i + 1)

\* What the walk owes for its stops up to the j-th: one chapter per heading
\* stop, titled by the piece and holding the next piece, and every other stop
\* appended after a blank line to the latest chapter, or opening an untitled one.
RECURSIVE WalkChapters(_, _, _)
WalkChapters(pieces, stops, j) ==
    IF j = 0 THEN <<>>
    ELSE LET before == WalkChapters(pieces, stops, j - 1)
             i == stops[j]
         IN  IF IsHeadingPiece(pieces[i])
             THEN Append(before, [title |-> <<pieces[i]>>,
                                  text |-> IF i + 1 <= Len(pieces) THEN pieces[i + 1] ELSE <<>>])
             ELSE IF before = <<>>
             THEN <<[title |-> <<>>, text |-> pieces[i]]>>
             ELSE [before EXCEPT ![Len(before)].text = @ \o <<LF, LF>> \o pieces[i]]

\* C14: in heading mode the chapters are those of the left-to-right walk over
\* the pieces: a piece at which the walk stops is a heading iff it starts with
\* the chapter word or is shorter than 80 characters; a heading opens a chapter
\* titled by it whose text is the following piece (empty if there is none);
\* any other piece is appended to the latest chapter, or becomes the text of
\* an untitled first chapter with index 0.
C14_HeadingWalk ==
    (SegDone /\ IsHeadingMode)
        => LET stops == WalkFrom(SegPieces, 1)
               owed == WalkChapters(SegPieces, stops, Len(stops))
           IN  /\ [k \in 1..Len(SegChapters) |->
                      [title |-> SegChapters[k].title, text |-> SegChapters[k].text]] = owed
               /\ \A k \in 1..Len(SegChapters) :
                      SegChapters[k].title = <<>> => k = 1 /\ SegChapters[k].index = 0

\* C14 witness: the walk met a piece of 80 characters or more after a chapter
\* had been opened and appended it to that chapter.
C14_Witness ==
    /\ SegDone /\ IsHeadingMode
    /\ \E k \in 1..Len(SegChapters) :
        /\ SegChapters[k].title # <<>>
        /\ \E j \in 2..Len(SegPieces) :
            /\ ~IsHeadingPiece(SegPieces[j])
            /\ Len(SegChapters[k].text) >= Len(SegPieces[j]) + 2
            /\ SubSeq(SegChapters[k].text,
                      Len(SegChapters[k].text) - Len(SegPieces[j]) - 1,
                      Len(SegChapters[k].text)) = <<LF, LF>> \o SegPieces[j]

C18_Original ==
    (SegDone /\ rawText # <<>>)
        => \A k \in 1..Len(SegChapters) : SegChapters[k].text # <<>>

\* C22 as stated: in heading mode the pieces that match the heading pattern
\* are, in order, the titles of the chapters titled by a match (each the title
\* of exactly one chapter), and no chapter has a matched heading as the start
\* of its body text.
C22_Original ==
    (SegDone /\ IsHeadingMode)
        => LET isMatch(t) == IsHeadingAt(t, 1)
               matchTitle(c) == c.title # <<>> /\ isMatch(c.title[1])
               titled == SelectSeq(SegChapters, matchTitle)
           IN  /\ SelectSeq(SegPieces, isMatch) = [k \in 1..Len(titled) |-> titled[k].title[1]]
               /\ \A k \in 1..Len(SegChapters) : ~isMatch(SegChapters[k].text)

----------------------------------------------------------------------------
(* Specification of the books router: requests of several users against    *)
(* one database, one generate-audio request being served at a time.        *)

\* The PDF text the uploads of this specification carry.
TwoChapterText ==
    ChapterWord \o <<SP, "1", LF>> \o Hola \o <<LF, LF>> \o ChapterWord \o <<SP, "2", LF>> \o Mundo

\* No synthesizeChapter invocation yet.
SynthNone ==
    /\ pc = "none" /\ synthArgs = <<>> /\ chunks = <<>> /\ ci = 0 /\ buffers = <<>>
    /\ calls = <<>> /\ inflight = 0 /\ outcome = <<>> /\ files = {} /\ cancelled = <<>>

InitBooks ==
    /\ rawText = TwoChapterText
    /\ segRes = <<>> /\ apiResp = <<>> /\ booksTbl = {} /\ chaptersTbl = {}
    /\ SynthNone /\ SplitIdle /\ ApiIdle
    /\ env = Clients(Users, {<<Hola, Hola>>}, {<<>>}, {""})

SynthesizeChapter ==
    SynthStart \/ SpeechRequest \/ SpeechResolve \/ SpeechReject \/ WriteFile

NextBooks ==
    \/ UploadBook \/ SaveBookmark \/ DeleteBook
    \/ GenerateAudio \/ GenLoop \/ GenAfterSynth \/ SynthesizeChapter

SpecBooks == InitBooks /\ [][NextBooks]_vars

\* The cost guard: one user, a heavy and a light book, requests for the whole
\* book or from or up to the chapter of index 2.
InitGenerate ==
    /\ rawText = TwoChapterText
    /\ segRes = <<>> /\ apiResp = <<>> /\ booksTbl = {} /\ chaptersTbl = {}
    /\ SynthNone /\ SplitIdle /\ ApiIdle
    /\ env = Clients({"u1"}, {"heavy", <<Hola, Hola>>}, {<<>>, <<2>>}, {""})

NextGenerate ==
    UploadBook \/ GenerateAudio \/ GenLoop \/ GenAfterSynth \/ SynthesizeChapter

SpecGenerate == InitGenerate /\ [][NextGenerate]_vars

\* The chapter loop: one user, a PDF of two chapters and an EPUB of three.
InitChapters ==
    /\ rawText = TwoChapterText
    /\ segRes = <<>> /\ apiResp = <<>> /\ booksTbl = {} /\ chaptersTbl = {}
    /\ SynthNone /\ SplitIdle /\ ApiIdle
    /\ env = Clients({"u1"}, {<<Hola, Mundo, Hola>>}, {<<>>}, {""})

NextChapters ==
    UploadBook \/ GenerateAudio \/ GenLoop \/ GenAfterSynth \/ SynthesizeChapter

SpecChapters == InitChapters /\ [][NextChapters]_vars

\* Two requests side by side: one user, a PDF of two chapters or an EPUB of one.
InitTwins ==
    /\ rawText = TwoChapterText
    /\ segRes = <<>> /\ apiResp = <<>> /\ booksTbl = {} /\ chaptersTbl = {}
    /\ SynthNone /\ SplitIdle /\ ApiIdle
    /\ env = Clients({"u1"}, {<<Hola>>}, {<<>>}, {"learning", "narrative"})

NextTwins ==
    \/ UploadBook
    \/ \E r \in Twins : \/ TwinAccept(r) \/ TwinSynthesized(r) \/ TwinWriteFile(r)
                        \/ TwinReadFile(r) \/ TwinUploaded(r)

SpecTwins == InitTwins /\ [][NextTwins]_vars

\* The routes of routes/books.routes.ts, called with and without the header.
InitRoutes ==
    /\ rawText = TwoChapterText
    /\ segRes = <<>> /\ apiResp = <<>> /\ booksTbl = {} /\ chaptersTbl = {}
    /\ SynthNone /\ SplitIdle /\ ApiIdle
    /\ env = Clients({"", "u1"}, {<<Hola>>}, {<<>>}, {""})

NextRoutes ==
    \/ ListBooks \/ UploadBook \/ GetBook \/ DeleteBook
    \/ GenerateAudio \/ RecapChapter \/ DeleteAudios
    \/ GenLoop \/ GenAfterSynth \/ SynthesizeChapter

SpecRoutes == InitRoutes /\ [][NextRoutes]_vars

Answered == req # <<>> /\ apiResp # <<>>

\* C12 as stated: without x-user-id header, listing, uploading and deleting a
\* book are not refused for the missing header, and generate-audio, recap and
\* delete-audios are refused with 401.
C12_Original ==
    (Answered /\ req[1].userId = "")
        => /\ req[1].op \in {"listBooks", "uploadBook", "deleteBook"}
                => apiResp[1].status # 401
           /\ req[1].op \in {"generateAudio", "recapChapter", "deleteAudios"}
                => apiResp[1].status = 401

\* The rows of the four tables that reference the book.
RowsOfBook(bookId) ==
    [books |-> {b \in booksTbl : b.id = bookId},
     chapters |-> {c \in chaptersTbl : c.book_id = bookId},
     bookmarks |-> {m \in bookmarksTbl : m.book_id = bookId},
     chapter_audios |-> {a \in audiosTbl : a.book_id = bookId}]

\* No row of the four tables references the book of the request answered last.
NoRowOfBook ==
    RowsOfBook(req[1].bookId) =
        [books |-> {}, chapters |-> {}, bookmarks |-> {}, chapter_audios |-> {}]

\* C13 as stated: at the step in which deleteBook answers "Libro eliminado"
\* for a book, no row of books, chapters, bookmarks or chapter_audios
\* references that book any more, whoever created the rows.
C13_Original ==
    [][(DeleteBook /\ apiResp'[1].status = 200) => NoRowOfBook']_vars

----------------------------------------------------------------------------
(* Specification of one synthesizeChapter invocation.                      *)

Init ==
    /\ synthArgs \in SynthInputs
    /\ files \in {{}, {<<FilePath(synthArgs.bookId, synthArgs.chapterIndex), OldAudio>>}}
    /\ pc = "idle" /\ chunks = <<>> /\ ci = 0 /\ buffers = <<>>
    /\ calls = <<>> /\ inflight = 0 /\ outcome = <<>> /\ cancelled = <<>>
    /\ SplitIdle /\ SegIdle /\ ApiIdle /\ env = <<>>

Next ==
    \/ SynthStart \/ SpeechRequest \/ SpeechResolve \/ SpeechReject \/ WriteFile
    \/ CallerCancel

Spec == Init /\ [][Next]_vars

SynthPath == FilePath(synthArgs.bookId, synthArgs.chapterIndex)
ProviderFailed == outcome # <<>> /\ outcome[1].error \in ProviderErrors

\* C3 as stated: when the request for chunk k fails, no request is made for a
\* later chunk, and the failure surfaced names chunk index k and carries the
\* k buffers synthesized before it.
C3_Original ==
    ProviderFailed
        => /\ Len(calls) = ci + 1
           /\ "chunkIndex" \in DOMAIN outcome[1].error
           /\ outcome[1].error.chunkIndex = ci
           /\ "buffers" \in DOMAIN outcome[1].error
           /\ Len(outcome[1].error.buffers) = ci

\* C11 as stated: once the caller has cancelled, no further speech request is
\* issued, and the invocation ends with a cancelled status that carries the
\* buffers synthesized so far.
C11_Original ==
    cancelled # <<>>
        => /\ Len(calls) <= cancelled[1]
           /\ pc \in {"returned", "thrown"}
                => /\ outcome[1].kind = "cancelled"
                   /\ "buffers" \in DOMAIN outcome[1]

\* C4: while no request has failed, requests are issued one per chunk in chunk
\* order, each with the instructions, a blank line and the chunk as input, at
\* most one in flight and none before the previous one resolved; a run that
\* returns has made exactly one request per chunk and has written the audio
\* the requests resolved with, concatenated in request order.
C4_SequentialCalls ==
    ~ProviderFailed
        => /\ inflight <= 1
           /\ Len(calls) = Len(buffers) + inflight
           /\ Len(calls) <= Len(chunks)
           /\ \A j \in 1..Len(calls) :
                /\ calls[j].chunk = j - 1
                /\ calls[j].input = BuildInstructions(synthArgs.style) \o <<LF, LF>> \o chunks[j]
           /\ pc = "returned"
                => /\ Len(chunks) >= 1
                   /\ Len(calls) = Len(chunks)
                   /\ <<SynthPath, Concat([j \in 1..Len(calls) |-> calls[j].mp3])>> \in files

\* C4 witness: a chapter of three or more chunks was synthesized and written,
\* with different audio for the first two chunks.
C4_Witness ==
    /\ pc = "returned" /\ Len(calls) >= 3
    /\ calls[1].mp3 # calls[2].mp3

\* C9: a chapter whose text gives no chunk (empty or white space only) ends in
\* the empty-chapter error, without any speech request and without touching
\* the audio file.
C9_EmptyChapterReported ==
    (pc # "idle" /\ (chunks = <<>> \/ IsBlank(synthArgs.text)))
        => /\ pc = "thrown"
           /\ outcome = Thrown(EmptyChapterError(synthArgs.chapterIndex))
           /\ calls = <<>> /\ inflight = 0
           /\ files \subseteq {<<SynthPath, OldAudio>>}

\* C9 witness: a white-space-only chapter was rejected while an older audio
\* file was in place.
C9_Witness ==
    /\ pc = "thrown" /\ synthArgs.text # <<>> /\ IsBlank(synthArgs.text)
    /\ files # {}

\* C19: the input of every speech request (instructions, blank line, chunk) is
\* at most 2000 tokens at 4 characters per token, that is 8000 characters, for
\* both styles and every chapter text, the chunks being cut at 1600 tokens.
C19_InputWithinProviderLimit ==
    \A j \in 1..Len(calls) : Len(calls[j].input) <= ProviderTokenLimit * 4

\* C19 witness: a request was made in the narrative style, the longer of the
\* two instructions, for a chunk that fills the budget of 6400 characters: an
\* input of 6490 characters (6482 in the learning style).
C19_Witness ==
    /\ calls # <<>>
    /\ Len(chunks[Len(calls)]) = SynthTokens * 4
    /\ synthArgs.style = "narrative"
    /\ Len(calls[Len(calls)].input) = 6490
    /\ Len(LearningInstructions) + 2 + SynthTokens * 4 = 6482

\* The chapters a generate-audio request selects, those of them with text, and
\* the words of the latter, counted chapter by chapter.
SelectedChapters(r) ==
    {c \in chaptersTbl : /\ c.book_id = r.bookId
                         /\ (r.startIndex # <<>> => c.index_in_book >= r.startIndex[1])
                         /\ (r.endIndex # <<>> => c.index_in_book <= r.endIndex[1])}

RECURSIVE TotalWords(_)
TotalWords(rows) ==
    IF rows = {} THEN 0
    ELSE LET c == CHOOSE x \in rows : TRUE
         IN  (IF Len(Trim(c.text)) > 0 THEN CountWords(c.text) ELSE 0)
                + TotalWords(rows \ {c})

\* words / 160 * 0.0065 > 2.0
ExceedsMaxCost(words) ==
    words * TTS_PRICE_PER_MINUTE_USD
        > MAX_OPERATION_COST_USD * TTS_WORDS_PER_MINUTE * PriceScale

\* C20: a generateAudio request of a user for a book whose selected non-empty
\* chapter texts hold, chapter counts added up, more words than 2 USD pay for
\* is answered 400 with that word count, and nothing is processed: no speech
\* request, no synthesizeChapter invocation, no file, object or row written.
\* A request that is taken on has a selection within the limit.
C20_CostGuard ==
    [][GenerateAudio =>
          LET r == req'[1]
              words == TotalWords(SelectedChapters(r))
          IN  /\ (r.userId # "" /\ words > 0 /\ ExceedsMaxCost(words))
                    => /\ apiResp' = GenRespondCost([words |-> words])
                       /\ genPc' = "idle" /\ gen' = <<>>
                       /\ UNCHANGED <<synthVars, audiosTbl, storage>>
              /\ genPc' = "loop" => ~ExceedsMaxCost(words)]_vars

\* C20 witness: a request for the first three chapters of the heavy book,
\* 49231 words in chapters that are each within the limit, has been refused,
\* no speech request having been made.
C20_Witness ==
    /\ req # <<>> /\ req[1].op = "generateAudio"
    /\ "endIndex" \in DOMAIN req[1] /\ req[1].endIndex = <<2>>
    /\ apiResp = GenRespondCost([words |-> 49231])
    /\ calls = <<>> /\ genPc = "idle"
    /\ \A c \in chaptersTbl : ~ExceedsMaxCost(CountWords(c.text))

\* C23: the chapter file changes only in the step that follows the successful
\* requests of all chunks (one resolved request per chunk, at least one chunk)
\* and returns; a step that ends the invocation with a provider error or with
\* the empty-chapter error creates no file and leaves an existing one as it is.
C23_FileOnlyAfterAllChunks ==
    [][/\ files' # files
            => /\ pc = "loop" /\ pc' = "returned"
               /\ Len(chunks) >= 1 /\ ci = Len(chunks) /\ Len(calls) = Len(chunks)
               /\ \A j \in 1..Len(calls) : calls[j].mp3 \in Mp3s
       /\ (pc' = "thrown" /\ pc # "thrown"
             /\ outcome'[1].error \in
                    ProviderErrors \cup {EmptyChapterError(synthArgs.chapterIndex)})
            => files' = files]_vars

\* C23 witness: the request for the third chunk failed after two succeeded,
\* and the older audio file is still in place, unchanged.
C23_Witness ==
    /\ pc = "thrown" /\ ProviderFailed
    /\ Len(calls) = 3 /\ Len(buffers) = 2
    /\ files = {<<SynthPath, OldAudio>>}

\* The storage path of the j-th selected chapter of the request g, and
\* whether its audio is in the bucket and in chapter_audios.
GenPath(g, j) ==
    [bookId |-> g.bookId, voice |-> g.voice, style |-> g.style,
     index |-> g.todo[j].index_in_book, timestamp |-> <<g.n, j>>]
Uploaded(g, j) == \E o \in storage : o[1] = GenPath(g, j)
Recorded(g, j) ==
    \E a \in audiosTbl : a.chapter_id = g.todo[j].id /\ a.audio_path = GenPath(g, j)

\* C24: generateAudio takes the selected chapters one at a time in ascending
\* index order; when synthesizeChapter throws, the request ends at once with
\* 429 or 500 and partialChaptersGenerated is the number of earlier chapters
\* that are both in the bucket and in chapter_audios, and no chapter is
\* attempted afterwards; a chapter is in the results only if its synthesis
\* returned, its upload succeeded and its row was upserted.
C24_ChapterLoop ==
    [][/\ gen # <<>> =>
            LET g == gen[1]
                done == {j \in 1..(g.k - 1) : Uploaded(g, j) /\ Recorded(g, j)}
            IN  \* ascending order, one chapter at a time
                /\ \A i, j \in 1..Len(g.todo) :
                      i < j => g.todo[i].index_in_book <= g.todo[j].index_in_book
                /\ (genPc = "loop" /\ genPc' = "synth")
                      => /\ synthArgs'.chapterIndex = g.todo[g.k].index_in_book
                         /\ synthArgs'.text = g.todo[g.k].text
                         /\ gen' = gen
                /\ gen' # <<>>
                      => /\ gen'[1].todo = g.todo
                         /\ gen'[1].k \in {g.k, g.k + 1}
                         /\ gen'[1].k = g.k + 1 => genPc' = "loop"
                \* the results list exactly the chapters uploaded and recorded
                /\ Len(g.results) = Cardinality(done)
                /\ \A r \in 1..Len(g.results) :
                      \E j \in done : g.results[r].chapterId = g.todo[j].id
                /\ (gen' # <<>> /\ gen'[1].results # g.results)
                      => /\ genPc = "synth" /\ pc = "returned"
                         /\ gen'[1].results =
                               Append(g.results,
                                      [chapterId |-> g.todo[g.k].id,
                                       index |-> g.todo[g.k].index_in_book,
                                       audio_path |-> GenPath(g, g.k)])
                         /\ \E o \in storage' : o[1] = GenPath(g, g.k)
                         /\ \E a \in audiosTbl' : /\ a.chapter_id = g.todo[g.k].id
                                                   /\ a.audio_path = GenPath(g, g.k)
                \* a throw ends the request and reports the count
                /\ (genPc = "synth" /\ pc = "thrown" /\ gen' # gen)
                      => /\ gen' = <<>> /\ genPc' = "idle"
                         /\ apiResp'[1].status \in {429, 500}
                         /\ apiResp'[1].generated = Cardinality(done)
                         /\ UNCHANGED <<storage, audiosTbl, synthArgs, pc>>
                /\ (gen' = <<>> /\ ~(genPc = "synth" /\ pc = "thrown")
                             /\ ~(genPc = "synth" /\ pc = "returned"))
                      => /\ g.k = Len(g.todo) + 1
                         /\ apiResp'[1].status = 200
                         /\ apiResp'[1].chapters = g.results
       \* no chapter is attempted once the request is answered
       /\ (gen = <<>> /\ genCount >= 1)
            => UNCHANGED <<synthArgs, pc, calls, files, storage, audiosTbl>>]_vars

C24_Witness ==
    /\ apiResp # <<>> /\ apiResp[1].status \in {429, 500}
    /\ req # <<>> /\ req[1].op = "generateAudio"
    /\ pc = "thrown"
    /\ Cardinality(chaptersTbl) = 3
    /\ \E c \in chaptersTbl :
          /\ synthArgs.chapterIndex = c.index_in_book
          /\ Cardinality({d \in chaptersTbl : d.index_in_book < c.index_in_book}) = 1
    /\ apiResp[1].generated = 0
    /\ Cardinality(storage) = 1 /\ audiosTbl = {}

\* C21 as stated: of two requests for the same book and chapter with
\* different voice or style, each uploads the audio it synthesized itself and
\* neither ends with an error.
C21_Original ==
    \A r, q \in Twins :
        (/\ r # q /\ conc[r].pc # "idle" /\ conc[q].pc # "idle"
         /\ conc[r].chapter = conc[q].chapter
         /\ (conc[r].voice # conc[q].voice \/ conc[r].style # conc[q].style))
            => /\ \A o \in storage : o[1] = TwinPath(r) => o[2] = conc[r].finalBuffer
               /\ conc[r].status # 500

====
